---- MODULE Spec2Model ----
(***************************************************************************)
(* A model of bevy_reflect's derive pipeline: the container-attribute      *)
(* parser and merge (container_attributes.rs) and the derive-input         *)
(* analyser (derive_data.rs).                                              *)
(*                                                                         *)
(* Conventions.                                                            *)
(*  - Option<T> is a sequence of length at most one: None is <<>> and      *)
(*    Some(x) is <<x>>.                                                    *)
(*  - A method 'fn f(&mut self, ..) -> Result<(), syn::Error>' is an       *)
(*    operator returning [self |-> the receiver after the call,            *)
(*    err |-> the error message, or NoErr], so that a partial update made  *)
(*    before an early return stays visible.                                *)
(*  - Error messages are the source's with ' in place of the backquote.   *)
(*  - proc_macro2::Span (the source location carried by TraitImpl and by   *)
(*    syn::Error) is not represented; an error is its message.             *)
(*  - An attribute token is [lex, head, form, arg]: lex says whether the   *)
(*    first token tree is an identifier, head is its text, form is what    *)
(*    follows it ("bare": nothing, "paren": '(arg)', "eq": '= arg',        *)
(*    "clause": the predicates of a where clause).                         *)
(***************************************************************************)
EXTENDS Integers, Sequences, FiniteSets, TLC

\* ------------------------------------------------------------- variables
VARIABLES
    this,      \* the ContainerAttributes parse_terminated is building
    traits,    \* the ContainerAttributes merged so far (from_input's traits)
    attrErr,   \* the error the attribute layer returned, or NoErr
    last,      \* the last attribute-layer call: [op, tok, prov]
    ntok,      \* tokens parsed so far
    nlists,    \* lists merged so far
    pc,               \* from_input: "attrs" in the loop, "done" once returned
    reflect_mode,     \* from_input's reflect_mode: Option<ReflectMode>
    type_path_alias,  \* from_input's type_path_alias: Option<Path>
    provenance,       \* the provenance of the running derive
    result,           \* what from_input returned
    decl,             \* the data from_input analysed, NoData before
    seen,             \* which attributes the loop has handled so far
    nattrs,           \* attributes handled so far
    registration,     \* the insertions of the generated get_type_registration
    gen,       \* the derive data a generator ran on, NoGen before
    call,      \* the last call of a generated method: [op, self, arg, out]
    rt,        \* the library's objects at hand: a tuple struct and an iterator
    cells,     \* the type-info cells: per cell its slot, or per TypeId its slot
    threads    \* per thread where it stands in get_or_set / get_or_insert


\* ---------------------------------------------------------------- bounds
\* Attribute tokens parsed over one run of the attribute layer.
MaxTokens == 3
\* Attribute lists merged into the accumulated set over one run.
MaxLists == 2

\* ------------------------------------------------------------- constants
DEBUG_ATTR == "Debug"
PARTIAL_EQ_ATTR == "PartialEq"
HASH_ATTR == "Hash"
FROM_REFLECT_ATTR == "from_reflect"
TYPE_PATH_ATTR == "type_path"
CONTAINER_DEFAULT_ATTR == "container_default"
CONFLICTING_TYPE_DATA_MESSAGE == "conflicting type data registration"

NoErr == ""
None == <<>>
Some(x) == <<x>>

\* Messages of the errors container_attributes.rs builds itself.
FromReflectAlreadySet(existing) ==
    IF existing THEN "'from_reflect' already set to true"
    ELSE "'from_reflect' already set to false"
TypePathAlreadySet(existing) ==
    IF existing THEN "'type_path' already set to true"
    ELSE "'type_path' already set to false"
ContainerDefaultAlreadySet == "'container_default' already set"
OnlySpecialMayBeCustom ==
    "only [Debug, PartialEq, Hash] may specify custom functions"
ExpectedBool == "Expected a boolean value"
OnlyWithImplReflect ==
    "'#[reflect(container_default = ...)]' is only applicable when using 'impl_reflect'."
OnlyOnStructs ==
    "'#[reflect(container_default = ...)]' is only applicable on structs."
\* Messages of errors raised by syn itself.
LookaheadError == "expected one of the container attributes"
ExpectedEq == "expected '='"
ExpectedPath == "expected path"
ExpectedComma == "expected ','"

\* ------------------------------------------------------------- TraitImpl
NotImplemented == [tag |-> "NotImplemented", path |-> ""]
Implemented == [tag |-> "Implemented", path |-> ""]
Custom(path) == [tag |-> "Custom", path |-> path]

TraitImpl_merge_overwrite(self, other) ==
    IF other.tag = "NotImplemented" THEN [self |-> self, err |-> NoErr]
    ELSE [self |-> other, err |-> NoErr]

TraitImpl_merge(self, other) ==
    IF self.tag = "NotImplemented" THEN [self |-> other, err |-> NoErr]
    ELSE IF other.tag = "NotImplemented" THEN [self |-> self, err |-> NoErr]
    ELSE [self |-> self, err |-> CONFLICTING_TYPE_DATA_MESSAGE]

\* ------------------------------------------------------ FromReflectAttrs
FromReflectAttrs_default == [auto_derive |-> None, container_default |-> None]

FromReflectAttrs_should_auto_derive(self) ==
    IF self.auto_derive = None THEN TRUE ELSE self.auto_derive[1]

FromReflectAttrs_insert_container_default(self, container_default) ==
    IF self.container_default # None
    THEN [self |-> self, err |-> ContainerDefaultAlreadySet]
    ELSE [self |-> [self EXCEPT !.container_default = Some(container_default)],
          err |-> NoErr]

FromReflectAttrs_merge_overwrite(self, other) ==
    LET s1 == IF other.auto_derive # None
              THEN [self EXCEPT !.auto_derive = other.auto_derive]
              ELSE self
    IN  IF other.container_default # None
        THEN FromReflectAttrs_insert_container_default(s1, other.container_default[1])
        ELSE [self |-> s1, err |-> NoErr]

FromReflectAttrs_merge(self, other) ==
    IF /\ other.auto_derive # None
       /\ self.auto_derive # None
       /\ self.auto_derive[1] # other.auto_derive[1]
    THEN [self |-> self, err |-> FromReflectAlreadySet(self.auto_derive[1])]
    ELSE LET s1 == IF other.auto_derive # None /\ self.auto_derive = None
                   THEN [self EXCEPT !.auto_derive = other.auto_derive]
                   ELSE self
         IN  IF other.container_default # None
             THEN FromReflectAttrs_insert_container_default(
                      s1, other.container_default[1])
             ELSE [self |-> s1, err |-> NoErr]

\* --------------------------------------------------------- TypePathAttrs
TypePathAttrs_default == [auto_derive |-> None]

TypePathAttrs_should_auto_derive(self) ==
    IF self.auto_derive = None THEN TRUE ELSE self.auto_derive[1]

TypePathAttrs_merge_keep_self(self, other) ==
    IF /\ other.auto_derive # None
       /\ self.auto_derive # None
       /\ self.auto_derive[1] # other.auto_derive[1]
    THEN [self |-> self, err |-> TypePathAlreadySet(self.auto_derive[1])]
    ELSE [self |-> self, err |-> NoErr]

TypePathAttrs_merge(self, other) ==
    IF /\ other.auto_derive # None
       /\ self.auto_derive # None
       /\ self.auto_derive[1] # other.auto_derive[1]
    THEN [self |-> self, err |-> TypePathAlreadySet(self.auto_derive[1])]
    ELSE IF other.auto_derive # None /\ self.auto_derive = None
         THEN [self |-> [self EXCEPT !.auto_derive = other.auto_derive],
               err |-> NoErr]
         ELSE [self |-> self, err |-> NoErr]

\* ---------------------------------------------------- ContainerAttributes
ContainerAttributes_default ==
    [debug |-> NotImplemented,
     hash |-> NotImplemented,
     partial_eq |-> NotImplemented,
     from_reflect_attrs |-> FromReflectAttrs_default,
     type_path_attrs |-> TypePathAttrs_default,
     custom_where |-> None,
     no_field_bounds |-> FALSE,
     idents |-> <<>>]

\* utility::get_reflect_ident: the identifier 'Reflect{name}'.
get_reflect_ident(name) == <<"Reflect", name>>

Range(s) == {s[i] : i \in DOMAIN s}

add_unique_ident_unchecked(idents, ident) ==
    [self |-> Append(idents, ident), err |-> NoErr]

add_unique_ident(idents, ident) ==
    IF \E i \in DOMAIN idents : idents[i] = ident
    THEN [self |-> idents, err |-> CONFLICTING_TYPE_DATA_MESSAGE]
    ELSE [self |-> Append(idents, ident), err |-> NoErr]

add_unique_idents_unchecked(idents, others) ==
    [self |-> idents \o others, err |-> NoErr]

\* The loop 'for ident in other.idents { add_unique_ident(idents, ident)?; }'.
RECURSIVE add_unique_idents(_, _)
add_unique_idents(idents, others) ==
    IF others = <<>> THEN [self |-> idents, err |-> NoErr]
    ELSE LET r == add_unique_ident(idents, Head(others))
         IN  IF r.err # NoErr THEN r
             ELSE add_unique_idents(r.self, Tail(others))

ContainerAttributes_merge_custom_where_keep_own(own, other) ==
    IF own = None /\ other # None THEN other ELSE own

ContainerAttributes_merge_custom_where(own, other) ==
    IF own # None /\ other # None THEN Some(own[1] \o other[1])
    ELSE IF own = None /\ other # None THEN other
    ELSE own

ContainerAttributes_merge(self, other) ==
    LET d == TraitImpl_merge(self.debug, other.debug)
        s1 == [self EXCEPT !.debug = d.self]
        h == TraitImpl_merge(self.hash, other.hash)
        s2 == [s1 EXCEPT !.hash = h.self]
        p == TraitImpl_merge(self.partial_eq, other.partial_eq)
        s3 == [s2 EXCEPT !.partial_eq = p.self]
        f == FromReflectAttrs_merge(self.from_reflect_attrs, other.from_reflect_attrs)
        s4 == [s3 EXCEPT !.from_reflect_attrs = f.self]
        t == TypePathAttrs_merge(self.type_path_attrs, other.type_path_attrs)
        s5 == [s4 EXCEPT !.type_path_attrs = t.self]
        s6 == [s5 EXCEPT
                 !.custom_where =
                     ContainerAttributes_merge_custom_where(
                         self.custom_where, other.custom_where),
                 !.no_field_bounds = self.no_field_bounds \/ other.no_field_bounds]
        i == add_unique_idents(self.idents, other.idents)
        s7 == [s6 EXCEPT !.idents = i.self]
    IN  IF d.err # NoErr THEN [self |-> s1, err |-> d.err]
        ELSE IF h.err # NoErr THEN [self |-> s2, err |-> h.err]
        ELSE IF p.err # NoErr THEN [self |-> s3, err |-> p.err]
        ELSE IF f.err # NoErr THEN [self |-> s4, err |-> f.err]
        ELSE IF t.err # NoErr THEN [self |-> s5, err |-> t.err]
        ELSE [self |-> s7, err |-> i.err]

\* ------------------------------------------------------------ prov
\* ReflectProvenance { source, trait_, type_kind } and the enums of its fields.
ReflectImplSource == {"ImplRemoteType", "DeriveLocalType"}
ReflectTraitToImpl == {"Reflect", "FromReflect", "TypePath"}
ReflectTypeKind == {"Struct", "TupleStruct", "UnitStruct", "Enum", "Value"}
ReflectProvenance ==
    [source : ReflectImplSource, trait_ : ReflectTraitToImpl,
     type_kind : ReflectTypeKind]

\* --------------------------------------------------------------- parsers
\* A parser returns [self, err, rest]: rest is the form of the token that
\* it left unconsumed ("" when it consumed the whole token).
Unconsumed(tok) == IF tok.form = "bare" THEN "" ELSE tok.form

\* The body shared by parse_debug, parse_partial_eq and parse_hash, on the
\* slot the caller names: [slot, err, rest].
parse_special_trait(slot, tok) ==
    IF tok.form = "paren"
    THEN IF tok.arg = ""
         THEN [slot |-> slot, err |-> ExpectedPath, rest |-> ""]
         ELSE LET m == TraitImpl_merge(slot, Custom(tok.arg))
              IN  [slot |-> m.self, err |-> m.err, rest |-> ""]
    ELSE [slot |-> Implemented, err |-> NoErr, rest |-> Unconsumed(tok)]

parse_debug(self, tok) ==
    LET r == parse_special_trait(self.debug, tok)
    IN  [self |-> [self EXCEPT !.debug = r.slot], err |-> r.err, rest |-> r.rest]

parse_partial_eq(self, tok) ==
    LET r == parse_special_trait(self.partial_eq, tok)
    IN  [self |-> [self EXCEPT !.partial_eq = r.slot], err |-> r.err,
         rest |-> r.rest]

parse_hash(self, tok) ==
    LET r == parse_special_trait(self.hash, tok)
    IN  [self |-> [self EXCEPT !.hash = r.slot], err |-> r.err, rest |-> r.rest]

parse_ident(self, tok) ==
    IF tok.form = "paren"
    THEN [self |-> self, err |-> OnlySpecialMayBeCustom, rest |-> ""]
    ELSE LET r == add_unique_ident(self.idents, get_reflect_ident(tok.head))
         IN  [self |-> [self EXCEPT !.idents = r.self], err |-> r.err,
              rest |-> Unconsumed(tok)]

parse_no_field_bounds(self, tok) ==
    [self |-> [self EXCEPT !.no_field_bounds = TRUE], err |-> NoErr,
     rest |-> Unconsumed(tok)]

\* A where clause: tok.arg is its one predicate ("" for none).
parse_custom_where(self, tok) ==
    [self |-> [self EXCEPT !.custom_where =
                   Some(IF tok.arg = "" THEN <<>> ELSE <<tok.arg>>)],
     err |-> NoErr, rest |-> ""]

extract_bool_literal(value, override) ==
    IF value \in {"true", "false"}
    THEN [ok |-> TRUE, val |-> value = "true"]
    ELSE [ok |-> FALSE, val |-> FALSE]

\* extract_bool(value, mapper), the mapper being "true if override, else
\* the literal": [ok, val].
extract_bool(value, override) ==
    IF value \in {"true", "false"}
    THEN [ok |-> TRUE, val |-> IF override THEN TRUE ELSE value = "true"]
    ELSE [ok |-> FALSE, val |-> FALSE]

parse_from_reflect(self, tok, trait_) ==
    IF tok.form # "eq" THEN [self |-> self, err |-> ExpectedEq, rest |-> ""]
    ELSE LET v == extract_bool(tok.arg, trait_ = "FromReflect")
         IN  IF ~v.ok THEN [self |-> self, err |-> ExpectedBool, rest |-> ""]
             ELSE [self |-> [self EXCEPT
                                !.from_reflect_attrs.auto_derive = Some(v.val)],
                   err |-> NoErr, rest |-> ""]

parse_type_path(self, tok, trait_) ==
    IF tok.form # "eq" THEN [self |-> self, err |-> ExpectedEq, rest |-> ""]
    ELSE LET v == extract_bool(tok.arg, trait_ = "TypePath")
         IN  IF ~v.ok THEN [self |-> self, err |-> ExpectedBool, rest |-> ""]
             ELSE [self |-> [self EXCEPT
                                !.type_path_attrs.auto_derive = Some(v.val)],
                   err |-> NoErr, rest |-> ""]

parse_container_default(self, tok, prov) ==
    IF prov.source = "DeriveLocalType"
    THEN [self |-> self, err |-> OnlyWithImplReflect, rest |-> ""]
    ELSE IF prov.type_kind \notin {"Struct", "TupleStruct"}
    THEN [self |-> self, err |-> OnlyOnStructs, rest |-> ""]
    ELSE IF tok.form # "eq"
    THEN [self |-> self, err |-> ExpectedEq, rest |-> ""]
    ELSE IF tok.arg = ""
    THEN [self |-> self, err |-> ExpectedPath, rest |-> ""]
    ELSE LET r == FromReflectAttrs_insert_container_default(
                      self.from_reflect_attrs, tok.arg)
         IN  [self |-> [self EXCEPT !.from_reflect_attrs = r.self],
              err |-> r.err, rest |-> ""]

\* The lookahead chain of parse_container_attribute, in the source's order.
\* Token![where] and the kw::* keywords peek at an identifier of that text;
\* Ident::peek_any peeks at any identifier.
parse_container_attribute(self, tok, prov) ==
    IF tok.lex = "ident" /\ tok.head = "where"
    THEN parse_custom_where(self, tok)
    ELSE IF tok.lex = "ident" /\ tok.head = FROM_REFLECT_ATTR
    THEN parse_from_reflect(self, tok, prov.trait_)
    ELSE IF tok.lex = "ident" /\ tok.head = TYPE_PATH_ATTR
    THEN parse_type_path(self, tok, prov.trait_)
    ELSE IF tok.lex = "ident" /\ tok.head = "no_field_bounds"
    THEN parse_no_field_bounds(self, tok)
    ELSE IF tok.lex = "ident" /\ tok.head = DEBUG_ATTR
    THEN parse_debug(self, tok)
    ELSE IF tok.lex = "ident" /\ tok.head = PARTIAL_EQ_ATTR
    THEN parse_partial_eq(self, tok)
    ELSE IF tok.lex = "ident" /\ tok.head = HASH_ATTR
    THEN parse_hash(self, tok)
    ELSE IF tok.lex = "ident"
    THEN parse_ident(self, tok)
    ELSE IF tok.lex = "ident" /\ tok.head = CONTAINER_DEFAULT_ATTR
    THEN parse_container_default(self, tok, prov)
    ELSE [self |-> self, err |-> LookaheadError, rest |-> ""]

\* One round of utility::terminated_parser(Token![,], ..): the item parser,
\* then either the end of the input or the separator.
terminated_parser_step(self, tok, prov) ==
    LET r == parse_container_attribute(self, tok, prov)
    IN  IF r.err # NoErr THEN [self |-> r.self, err |-> r.err]
        ELSE IF r.rest # "" THEN [self |-> r.self, err |-> ExpectedComma]
        ELSE [self |-> r.self, err |-> NoErr]

\* ContainerAttributes::parse_terminated on a whole list of tokens, from
\* own; the first error ends the parse.
RECURSIVE parse_terminated_from(_, _, _)
parse_terminated_from(own, toks, prov) ==
    IF toks = <<>> THEN [self |-> own, err |-> NoErr]
    ELSE LET r == terminated_parser_step(own, Head(toks), prov)
         IN  IF r.err # NoErr THEN r
             ELSE parse_terminated_from(r.self, Tail(toks), prov)

ContainerAttributes_parse_terminated(toks, prov) ==
    parse_terminated_from(ContainerAttributes_default, toks, prov)

\* ----------------------------------------------------------- derive input
\* A derive-layer error is [msg, at]: at names the syntax node the error is
\* attached to, [node, variant, field] with -1 for "not applicable".
REFLECT_ATTRIBUTE_NAME == "reflect"
REFLECT_VALUE_ATTRIBUTE_NAME == "reflect_value"
TYPE_PATH_ATTRIBUTE_NAME == "type_path"

BothModes == "cannot use both '#[reflect]' and '#[reflect_value]'"
MultipleTypePath == "cannot use multuple '#[type_path = ...]'"
TypePathNotString == "'#[type_path = ...]' must be a string literal"
TypePathBadPath == "expected a path without a leading colon"
UnionsUnsupported == "reflection not supported for unions"
BadFieldAttr == "invalid reflect attribute"

At(node, variant, field) == [node |-> node, variant |-> variant, field |-> field]
Error(msg, at) == [msg |-> msg, at |-> at]
ContainerError(msg) == Error(msg, At("container", -1, -1))

\* syn's Attribute::parse_meta: an attribute [path, meta, nested, lit] whose
\* tokens form no Meta has meta = "Invalid".
parse_meta(attr) == IF attr.meta = "Invalid" THEN None ELSE Some(attr)

\* with_path::parse_path_no_leading_colon on a path given by its segments
\* (a leading colon shows as an empty first segment): [ok, path].
parse_path_no_leading_colon(segments) ==
    IF segments = <<>> \/ segments[1] = ""
    THEN [ok |-> FALSE, path |-> <<>>]
    ELSE [ok |-> TRUE, path |-> segments]

\* The state of from_input's loop over the attributes.
FromInputState(mode, merged, alias) ==
    [reflect_mode |-> mode, traits |-> merged, type_path_alias |-> alias]

\* from_input, once the nested list has been parsed and merged: the error of
\* the merge is returned, else the merged attributes are kept.
from_input_merged(st1, merged) ==
    IF merged.err # NoErr
    THEN [st |-> st1, errs |-> <<ContainerError(merged.err)>>]
    ELSE [st |-> [st1 EXCEPT !.traits = merged.self], errs |-> <<>>]

\* from_input, once the nested list has been parsed: the error of the parse
\* is returned, else the new attributes are merged into traits.
from_input_parsed(st1, new_traits) ==
    IF new_traits.err # NoErr
    THEN [st |-> st1, errs |-> <<ContainerError(new_traits.err)>>]
    ELSE from_input_merged(st1,
             ContainerAttributes_merge(st1.traits, new_traits.self))

from_input_list_collect_errors(st, attr, mode, prov) ==
    IF st.reflect_mode \notin {None, Some(mode)}
    THEN [st |-> st,
          errs |-> <<ContainerError(BothModes)>>
                   \o from_input_parsed(st,
                          ContainerAttributes_parse_terminated(attr.nested, prov)).errs]
    ELSE from_input_parsed([st EXCEPT !.reflect_mode = Some(mode)],
             ContainerAttributes_parse_terminated(attr.nested, prov))

\* The arm shared by '#[reflect(...)]' and '#[reflect_value(...)]': the mode
\* check, then the list is parsed and merged into traits. [st, errs].
from_input_list(st, attr, mode, prov) ==
    IF st.reflect_mode \notin {None, Some(mode)}
    THEN [st |-> st, errs |-> <<ContainerError(BothModes)>>]
    ELSE from_input_parsed([st EXCEPT !.reflect_mode = Some(mode)],
             ContainerAttributes_parse_terminated(attr.nested, prov))

\* One iteration of from_input's loop over input.attrs: [st, errs], errs
\* being the error from_input returns at once, or <<>>.
from_input_attr(st, attr, prov) ==
    IF parse_meta(attr) = None THEN [st |-> st, errs |-> <<>>]
    ELSE IF attr.meta = "List" /\ attr.path = REFLECT_ATTRIBUTE_NAME
    THEN from_input_list(st, attr, "Normal", prov)
    ELSE IF attr.meta = "List" /\ attr.path = REFLECT_VALUE_ATTRIBUTE_NAME
    THEN from_input_list(st, attr, "Value", prov)
    ELSE IF attr.meta = "Path" /\ attr.path = REFLECT_VALUE_ATTRIBUTE_NAME
    THEN IF st.reflect_mode \notin {None, Some("Value")}
         THEN [st |-> st, errs |-> <<ContainerError(BothModes)>>]
         ELSE [st |-> [st EXCEPT !.reflect_mode = Some("Value")], errs |-> <<>>]
    ELSE IF attr.meta = "NameValue" /\ attr.path = TYPE_PATH_ATTRIBUTE_NAME
    THEN IF st.type_path_alias # None
         THEN [st |-> st, errs |-> <<ContainerError(MultipleTypePath)>>]
         ELSE IF attr.lit.kind # "Str"
         THEN [st |-> st, errs |-> <<ContainerError(TypePathNotString)>>]
         ELSE LET parsed == parse_path_no_leading_colon(attr.lit.value)
              IN  IF ~parsed.ok
                  THEN [st |-> st, errs |-> <<ContainerError(TypePathBadPath)>>]
                  ELSE [st |-> [st EXCEPT !.type_path_alias = Some(parsed.path)],
                        errs |-> <<>>]
    ELSE [st |-> st, errs |-> <<>>]

\* field_attributes::parse_field_attrs on a field or variant whose reflect
\* annotations are f.attrs ("active", "ignore", or "bad" when malformed):
\* [ok, ignore].
parse_field_attrs(f) ==
    [ok |-> f.attrs # "bad", ignore |-> f.attrs = "ignore"]

\* utility::ResultSifter: the fold keeps every Ok item and combines every
\* error; finish returns the errors if there is any, else the items.
ResultSifter_default == [items |-> <<>>, errors |-> <<>>]
ResultSifter_fold(sifter, res) ==
    IF res.errs = <<>>
    THEN [sifter EXCEPT !.items = Append(@, res.item)]
    ELSE [sifter EXCEPT !.errors = @ \o res.errs]
ResultSifter_finish(sifter) ==
    IF sifter.errors # <<>> THEN [items |-> <<>>, errs |-> sifter.errors]
    ELSE [items |-> sifter.items, errs |-> <<>>]

NoStructField == [index |-> -1, ignore |-> FALSE, data |-> ""]

\* The closure of collect_struct_fields on the field at position index
\* (from 0) of the variant numbered variant (-1 for a struct).
struct_field_result(f, index, variant) ==
    LET attrs == parse_field_attrs(f)
    IN  IF ~attrs.ok
        THEN [item |-> NoStructField,
              errs |-> <<Error(BadFieldAttr, At("field", variant, index))>>]
        ELSE [item |-> [index |-> index, ignore |-> attrs.ignore,
                        data |-> f.name],
              errs |-> <<>>]

RECURSIVE collect_fields_from(_, _, _, _)
collect_fields_from(sifter, list, index, variant) ==
    IF index >= Len(list) THEN sifter
    ELSE collect_fields_from(
             ResultSifter_fold(sifter,
                 struct_field_result(list[index + 1], index, variant)),
             list, index + 1, variant)

collect_struct_fields_active_index(fields, variant) ==
    LET all == ResultSifter_finish(
                   collect_fields_from(ResultSifter_default, fields.list, 0, variant))
        ignoredBefore(i) ==
            Cardinality({j \in 1..(i - 1) : all.items[j].ignore})
    IN  [items |-> [i \in DOMAIN all.items |->
                      [all.items[i] EXCEPT !.index = @ - ignoredBefore(i)]],
         errs |-> all.errs]

\* collect_struct_fields(fields): [items, errs].
collect_struct_fields(fields, variant) ==
    ResultSifter_finish(
        collect_fields_from(ResultSifter_default, fields.list, 0, variant))

NoVariant == [index |-> -1, data |-> "", style |-> "", fields |-> <<>>,
              ignore |-> FALSE]

\* The closure of collect_enum_variants on the variant at position index.
enum_variant_result(v, index) ==
    LET fields == collect_struct_fields(v.fields, index)
        attrs == parse_field_attrs(v)
    IN  IF fields.errs # <<>> THEN [item |-> NoVariant, errs |-> fields.errs]
        ELSE IF ~attrs.ok
        THEN [item |-> NoVariant,
              errs |-> <<Error(BadFieldAttr, At("variant", index, -1))>>]
        ELSE [item |-> [index |-> index, data |-> v.name,
                        style |-> v.fields.style,
                        fields |-> IF v.fields.style = "Unit" THEN <<>>
                                   ELSE fields.items,
                        ignore |-> attrs.ignore],
              errs |-> <<>>]

RECURSIVE collect_variants_from(_, _, _)
collect_variants_from(sifter, variants, index) ==
    IF index >= Len(variants) THEN sifter
    ELSE collect_variants_from(
             ResultSifter_fold(sifter,
                 enum_variant_result(variants[index + 1], index)),
             variants, index + 1)

\* collect_enum_variants(variants): [items, errs].
collect_enum_variants(variants) ==
    ResultSifter_finish(
        collect_variants_from(ResultSifter_default, variants, 0))

\* The identity from_input gives the type: PathToType::AliasedNamed when a
\* '#[type_path = "..."]' was given, PathToType::Internal otherwise.
from_input_path_to_type(ident, alias) ==
    IF alias # None
    THEN [tag |-> "AliasedNamed", ident |-> ident, alias |-> alias[1]]
    ELSE [tag |-> "Internal", ident |-> ident, alias |-> <<>>]

ReflectMeta_new(path_to_type, traits0) ==
    [traits |-> traits0, path_to_type |-> path_to_type]

NoMeta == ReflectMeta_new([tag |-> "", ident |-> "", alias |-> <<>>],
                          ContainerAttributes_default)
DeriveResult(status, errs, shape, meta, fields, variants) ==
    [status |-> status, errs |-> errs, shape |-> shape, meta |-> meta,
     fields |-> fields, variants |-> variants]
NoResult == DeriveResult("none", <<>>, "", NoMeta, <<>>, <<>>)
DeriveErr(errs) == DeriveResult("err", errs, "", NoMeta, <<>>, <<>>)

from_input_finish_collect_first(st, data) ==
    LET meta == ReflectMeta_new(
                    from_input_path_to_type(data.ident, st.type_path_alias),
                    st.traits)
        fields == collect_struct_fields(data.fields, -1)
    IN  IF data.kind = "Union"
        THEN DeriveErr(<<Error(UnionsUnsupported, At("input", -1, -1))>>)
        ELSE IF data.kind = "Struct" /\ fields.errs # <<>>
        THEN DeriveErr(fields.errs)
        ELSE IF st.reflect_mode = Some("Value")
        THEN DeriveResult("ok", <<>>, "Value", meta, <<>>, <<>>)
        ELSE DeriveResult("ok", <<>>, "Struct", meta, fields.items, <<>>)

\* from_input after the loop (lines 216-268), on the declaration
\* data = [ident, kind, fields, variants].
from_input_finish(st, data) ==
    LET meta == ReflectMeta_new(
                    from_input_path_to_type(data.ident, st.type_path_alias),
                    st.traits)
        mode == IF st.reflect_mode = None THEN "Normal"
                ELSE st.reflect_mode[1]
        fields == collect_struct_fields(data.fields, -1)
        variants == collect_enum_variants(data.variants)
    IN  IF mode = "Value"
        THEN DeriveResult("ok", <<>>, "Value", meta, <<>>, <<>>)
        ELSE IF data.kind = "Struct"
        THEN IF fields.errs # <<>> THEN DeriveErr(fields.errs)
             ELSE DeriveResult("ok", <<>>,
                      CASE data.fields.style = "Named" -> "Struct"
                        [] data.fields.style = "Unnamed" -> "TupleStruct"
                        [] OTHER -> "UnitStruct",
                      meta, fields.items, <<>>)
        ELSE IF data.kind = "Enum"
        THEN IF variants.errs # <<>> THEN DeriveErr(variants.errs)
             ELSE DeriveResult("ok", <<>>, "Enum", meta, <<>>, variants.items)
        ELSE DeriveErr(<<Error(UnionsUnsupported, At("input", -1, -1))>>)

\* ----------------------------------------------------------- registration
\* utility::members_to_serialization_denylist on the fields' records: the
\* positions of the ignored fields.
members_to_serialization_denylist(fields) ==
    {fields[i].index : i \in {j \in DOMAIN fields : fields[j].ignore}}

\* An insertion 'registration.insert::<key>(..)': key is the capability's
\* identifier, arg what the capability is built from.
Insert(key, arg) == [key |-> key, arg |-> arg]
ReflectFromPtr == <<"Reflect", "FromPtr">>
SerializationData == <<"SerializationData">>

impl_get_type_registration_markers_first(meta, serialization_denylist) ==
    [i \in DOMAIN meta.traits.idents |-> Insert(meta.traits.idents[i], {})]
    \o <<Insert(ReflectFromPtr, {})>>
    \o (IF serialization_denylist = None THEN <<>>
        ELSE <<Insert(SerializationData, serialization_denylist[1])>>)

\* registration::impl_get_type_registration: the insertions of the generated
\* get_type_registration, in order.
impl_get_type_registration(meta, serialization_denylist) ==
    <<Insert(ReflectFromPtr, {})>>
    \o (IF serialization_denylist = None THEN <<>>
        ELSE <<Insert(SerializationData, serialization_denylist[1])>>)
    \o [i \in DOMAIN meta.traits.idents |-> Insert(meta.traits.idents[i], {})]

ReflectMeta_get_type_registration(meta) ==
    impl_get_type_registration(meta, None)

\* ReflectStruct::get_type_registration; the struct's denylist is the one
\* from_input built from its fields (lines 245-247).
ReflectStruct_get_type_registration(meta, fields) ==
    impl_get_type_registration(meta,
        Some(members_to_serialization_denylist(fields)))

\* The get_type_registration each shape's generator emits: impl_tuple_struct
\* and impl_value; impl_struct (named and unit structs) and impl_enum.
derive_get_type_registration(derived) ==
    CASE derived.shape = "TupleStruct" ->
             ReflectStruct_get_type_registration(derived.meta, derived.fields)
      [] derived.shape = "Value" ->
             ReflectMeta_get_type_registration(derived.meta)
      [] derived.shape \in {"Struct", "UnitStruct"} ->
             ReflectStruct_get_type_registration(derived.meta, derived.fields)
      [] derived.shape = "Enum" ->
             ReflectMeta_get_type_registration(derived.meta)

\* ------------------------------------------------ generated trait methods
\* The code a get_*_impl returns: a method whose body forwards to the type's
\* own implementation of a std trait, or calls the user's function.
Forwarding(std_trait) == [body |-> "forward", target |-> std_trait]
Calling(impl_fn) == [body |-> "call", target |-> impl_fn]

get_hash_impl_forward_only(attrs) ==
    CASE attrs.hash.tag = "Implemented" -> Some(Forwarding("Hash"))
      [] attrs.hash.tag = "Custom" -> Some(Forwarding("Hash"))
      [] attrs.hash.tag = "NotImplemented" -> None

get_hash_impl(attrs) ==
    CASE attrs.hash.tag = "Implemented" -> Some(Forwarding("Hash"))
      [] attrs.hash.tag = "Custom" -> Some(Calling(attrs.hash.path))
      [] attrs.hash.tag = "NotImplemented" -> None

get_partial_eq_impl(attrs) ==
    CASE attrs.partial_eq.tag = "Implemented" -> Some(Forwarding("PartialEq"))
      [] attrs.partial_eq.tag = "Custom" -> Some(Calling(attrs.partial_eq.path))
      [] attrs.partial_eq.tag = "NotImplemented" -> None

get_debug_impl(attrs) ==
    CASE attrs.debug.tag = "Implemented" -> Some(Forwarding("Debug"))
      [] attrs.debug.tag = "Custom" -> Some(Calling(attrs.debug.path))
      [] attrs.debug.tag = "NotImplemented" -> None

\* A reflected value: the TypeId of its concrete type and its data. What a
\* function of the user's crate or a std trait's implementation returns is
\* the term naming the function and its arguments.
Value(type_id, data) == [type_id |-> type_id, data |-> data]
\* The deriving type, as TypeId and as ::core::any::type_name::<Self>().
SelfTypeName == "Foo"
Term(f, args) == [fn |-> f, args |-> args]

\* The methods of the 'impl PartialReflect' impl_value emits for a type
\* Self: the code of get_*_impl when there is some, the trait's provided
\* method otherwise.
reflect_hash(meta, Self, self_v) ==
    LET code == get_hash_impl(meta.traits)
    IN  IF code = None THEN None
        ELSE IF code[1].body = "forward"
        THEN Some(Term("Hash::hash", <<self_v.type_id, self_v>>))
        ELSE Some(Term(code[1].target, <<self_v>>))

reflect_partial_eq(meta, Self, self_v, value) ==
    LET code == get_partial_eq_impl(meta.traits)
    IN  IF code = None THEN None
        ELSE IF code[1].body = "forward"
        THEN (IF value.type_id = Self
              THEN Some(self_v.data = value.data)
              ELSE Some(FALSE))
        ELSE Some(Term(code[1].target, <<self_v, value>>))

debug(meta, Self, self_v) ==
    LET code == get_debug_impl(meta.traits)
    IN  IF code = None THEN Term("write!", <<"Reflect({})", Self>>)
        ELSE IF code[1].body = "forward"
        THEN Term("Debug::fmt", <<self_v>>)
        ELSE Term(code[1].target, <<self_v>>)

\* ------------------------------------------------- generated FromReflect
\* field_attributes::DefaultBehavior, the default field of a field's attrs.
DefaultBehavior_Required == [tag |-> "Required", path |-> ""]
DefaultBehavior_Default == [tag |-> "Default", path |-> ""]
DefaultBehavior_Func(path) == [tag |-> "Func", path |-> path]

\* container_attributes::REFLECT_DEFAULT and ReflectTraits::contains: whether
\* Default is registered on the container.
REFLECT_DEFAULT == get_reflect_ident("Default")
ContainerAttributes_contains(attrs, name) == name \in Range(attrs.idents)

active_fields(reflect_struct) ==
    SelectSeq(reflect_struct.fields, LAMBDA field : ~field.ignore)
ignored_fields(reflect_struct) ==
    SelectSeq(reflect_struct.fields, LAMBDA field : field.ignore)

\* syn::Member and the literal a field is looked up by; a field's data is
\* its identifier, "" for a positional field.
Member_Named(ident) == [tag |-> "Named", ident |-> ident, index |-> 0]
Member_Unnamed(index) == [tag |-> "Unnamed", ident |-> "", index |-> index]
Lit_Int(index) == [tag |-> "Int", str |-> "", int |-> index]
Lit_Str(str) == [tag |-> "Str", str |-> str, int |-> 0]
IndexToString(index) == <<"0", "1", "2", "3">>[index + 1]

get_ident(field, is_tuple) ==
    IF is_tuple THEN Member_Unnamed(field.index)
    ELSE IF field.data # "" THEN Member_Named(field.data)
    ELSE Member_Unnamed(field.index)

get_field_accessor(field, is_tuple) ==
    IF is_tuple THEN Lit_Int(field.index)
    ELSE IF field.data # "" THEN Lit_Str(field.data)
    ELSE Lit_Str(IndexToString(field.index))

\* A reflected value handed to from_reflect: what reflect_ref says it is, and
\* for the struct kinds its fields, each a name ("" in a tuple struct) and a
\* reflected value; for an enum the name of its variant.
Reflected(kind, fields, variant) ==
    [kind |-> kind, fields |-> fields, variant |-> variant]
DynamicField(name, value) == [name |-> name, value |-> value]
\* A reflected field value: one the field's type converts from, giving data,
\* or one it does not convert from.
Convertible(data) == [ok |-> TRUE, data |-> data]
Unconvertible == [ok |-> FALSE, data |-> Term("", <<>>)]
\* <T as FromReflect>::from_reflect of a field's type.
field_from_reflect(value) == IF value.ok THEN Some(value.data) ELSE None

\* DynamicTupleStruct's TupleStruct::field.
TupleStruct_field(dyn_struct, index) ==
    IF index < Len(dyn_struct.fields)
    THEN Some(dyn_struct.fields[index + 1].value)
    ELSE None

\* DynamicStruct's Struct::field: the value inserted under the name.
Struct_field(dyn_struct, name) ==
    LET at == {i \in DOMAIN dyn_struct.fields : dyn_struct.fields[i].name = name}
    IN  IF at = {} THEN None
        ELSE Some(dyn_struct.fields[CHOOSE i \in at : \A j \in at : i <= j].value)

get_field(dyn_struct, accessor, is_tuple) ==
    IF is_tuple THEN TupleStruct_field(dyn_struct, accessor.int)
    ELSE Struct_field(dyn_struct, accessor.str)

\* Default::default() of a field's type, a call of a default function, and
\* the fields of Default::default() of the deriving type.
FQDefault_default == Term("Default::default", <<>>)
PathCall(path) == Term(path, <<>>)
SelfDefault(members) == [m \in members |-> Term("Self::default", <<m.index>>)]

ignored_value(field) ==
    IF field.default.tag = "Func" THEN PathCall(field.default.path)
    ELSE FQDefault_default

\* The closure get_active_fields emits for a field, run on a field lookup.
active_closure(field, got) ==
    CASE field.default.tag = "Func" ->
             IF got # None THEN field_from_reflect(got[1])
             ELSE Some(PathCall(field.default.path))
      [] field.default.tag = "Default" ->
             IF got # None THEN field_from_reflect(got[1])
             ELSE Some(FQDefault_default)
      [] field.default.tag = "Required" ->
             IF got = None THEN None ELSE field_from_reflect(got[1])

active_value(field, dyn_struct, is_tuple) ==
    active_closure(field,
        get_field(dyn_struct, get_field_accessor(field, is_tuple), is_tuple))

Members(fields, is_tuple) ==
    {get_ident(fields[i], is_tuple) : i \in DOMAIN fields}
FieldOf(fields, is_tuple, member) ==
    fields[CHOOSE i \in DOMAIN fields : get_ident(fields[i], is_tuple) = member]

\* The constructor of impl_struct_internal when Default is registered.
constructor_default(reflect_struct, dyn_struct, is_tuple) ==
    LET members == Members(reflect_struct.fields, is_tuple)
    IN  Some(Value(SelfTypeName,
            [m \in members |->
                LET field == FieldOf(reflect_struct.fields, is_tuple, m)
                IN  IF ~field.ignore
                       /\ active_value(field, dyn_struct, is_tuple) # None
                    THEN active_value(field, dyn_struct, is_tuple)[1]
                    ELSE SelfDefault(members)[m]]))

\* The constructor of impl_struct_internal otherwise: every active value()?
constructor_fields(reflect_struct, dyn_struct, is_tuple) ==
    LET members == Members(reflect_struct.fields, is_tuple)
        active == active_fields(reflect_struct)
    IN  IF \E i \in DOMAIN active :
               active_value(active[i], dyn_struct, is_tuple) = None
        THEN None
        ELSE Some(Value(SelfTypeName,
                 [m \in members |->
                     LET field == FieldOf(reflect_struct.fields, is_tuple, m)
                     IN  IF field.ignore THEN ignored_value(field)
                         ELSE active_value(field, dyn_struct, is_tuple)[1]]))

impl_struct_internal_overlay_always(reflect_struct, is_tuple, reflect) ==
    IF reflect.kind = (IF is_tuple THEN "TupleStruct" ELSE "Struct")
    THEN constructor_default(reflect_struct, reflect, is_tuple)
    ELSE None

\* The from_reflect impl_struct_internal emits.
impl_struct_internal(reflect_struct, is_tuple, reflect) ==
    IF reflect.kind = (IF is_tuple THEN "TupleStruct" ELSE "Struct")
    THEN IF ContainerAttributes_contains(reflect_struct.meta.traits,
                                         REFLECT_DEFAULT)
         THEN constructor_default(reflect_struct, reflect, is_tuple)
         ELSE constructor_fields(reflect_struct, reflect, is_tuple)
    ELSE None

from_reflect_impl_struct(reflect_struct, reflect) ==
    impl_struct_internal(reflect_struct, FALSE, reflect)
from_reflect_impl_tuple_struct(reflect_struct, reflect) ==
    impl_struct_internal(reflect_struct, TRUE, reflect)

\* What a call returns, or the message it panics with.
Returned(value) == [panic |-> FALSE, value |-> value]
Panicked(message) == [panic |-> TRUE, value |-> message]

\* enum_utility::get_variant_constructors: the names of the variants and,
\* for each, the expression building it from the reflected enum.
variant_names(reflect_enum) ==
    [i \in DOMAIN reflect_enum.variants |-> reflect_enum.variants[i].name]
variant_constructor(name, reflect) ==
    Value(SelfTypeName, Term("Self::", <<name>>))

from_reflect_impl_enum_none(reflect_enum, reflect) ==
    IF reflect.kind = "Enum"
    THEN IF reflect.variant \in Range(variant_names(reflect_enum))
         THEN Returned(Some(variant_constructor(reflect.variant, reflect)))
         ELSE Returned(None)
    ELSE Returned(None)

\* The from_reflect impl_enum emits.
from_reflect_impl_enum(reflect_enum, reflect) ==
    IF reflect.kind = "Enum"
    THEN IF reflect.variant \in Range(variant_names(reflect_enum))
         THEN Returned(Some(variant_constructor(reflect.variant, reflect)))
         ELSE Panicked(<<"variant with name '", reflect.variant,
                         "' does not exist on enum '", SelfTypeName, "'">>)
    ELSE Returned(None)

\* PartialReflect::clone_value of a field whose type is round-trip safe.
clone_value(data) == Convertible(data)

\* The TupleStruct::clone_dynamic impl_tuple_struct emits: one insert_boxed
\* per active field.
tuple_struct_clone_dynamic(reflect_struct, self_v) ==
    LET active == active_fields(reflect_struct)
    IN  Reflected("TupleStruct",
            [i \in DOMAIN active |->
                DynamicField("",
                    clone_value(self_v.data[Member_Unnamed(active[i].index)]))],
            "")

\* The Struct::clone_dynamic impl_struct emits: one insert_boxed per active
\* field, under the field's name.
struct_clone_dynamic(reflect_struct, self_v) ==
    LET active == active_fields(reflect_struct)
    IN  Reflected("Struct",
            [i \in DOMAIN active |->
                DynamicField(active[i].data,
                    clone_value(self_v.data[get_ident(active[i], FALSE)]))],
            "")

\* ---------------------------------------------------------------- inputs
Tok(lex, head, form, arg) ==
    [lex |-> lex, head |-> head, form |-> form, arg |-> arg]
NoTok == Tok("", "", "", "")

SpecialTraitNames == {DEBUG_ATTR, PARTIAL_EQ_ATTR, HASH_ATTR}
MarkerNames == {"Default", "default"}
SpecialTokens ==
    {Tok("ident", n, "bare", "") : n \in SpecialTraitNames}
    \cup {Tok("ident", n, "paren", "my_fn") : n \in SpecialTraitNames}
MarkerTokens ==
    {Tok("ident", n, "bare", "") : n \in MarkerNames}
    \cup {Tok("ident", "Default", "paren", "my_fn")}
ToggleTokens ==
    {Tok("ident", n, "eq", v) :
        n \in {FROM_REFLECT_ATTR, TYPE_PATH_ATTR}, v \in {"true", "false"}}
    \cup {Tok("ident", FROM_REFLECT_ATTR, "eq", "1")}
BoundsTokens ==
    {Tok("ident", "no_field_bounds", "bare", ""),
     Tok("ident", "where", "clause", "T: Clone"),
     Tok("ident", "where", "clause", "U: Copy")}
ContainerDefaultTokens ==
    {Tok("ident", CONTAINER_DEFAULT_ATTR, "bare", ""),
     Tok("ident", CONTAINER_DEFAULT_ATTR, "eq", "my_default")}
OtherTokens == {Tok("literal", "42", "bare", "")}
AttrTokens ==
    SpecialTokens \cup MarkerTokens \cup ToggleTokens \cup BoundsTokens
    \cup ContainerDefaultTokens \cup OtherTokens

Prov(source, trait_, type_kind) ==
    [source |-> source, trait_ |-> trait_, type_kind |-> type_kind]
NoProv == Prov("", "", "")
\* The provenances a token is parsed under. Only the from_reflect and
\* type_path parsers are handed prov.trait_ and only the
\* container_default parser the whole prov, so a token's prov
\* ranges over the part that can reach its parser.
ProvenancesFor(tok) ==
    IF tok.head \in {FROM_REFLECT_ATTR, TYPE_PATH_ATTR}
    THEN {Prov("DeriveLocalType", t, "Struct") : t \in ReflectTraitToImpl}
    ELSE IF tok.head = CONTAINER_DEFAULT_ATTR
    THEN {Prov(s, "Reflect", k) : s \in ReflectImplSource, k \in ReflectTypeKind}
    ELSE {Prov("DeriveLocalType", "Reflect", "Struct")}

\* Declarations: the attributes and the data of a DeriveInput.
MaxAttrs == 3
MaxFields == 2
MaxVariants == 2

Lit(kind, value) == [kind |-> kind, value |-> value]
NoLit == Lit("", <<>>)
Attr(path, meta, nested, lit) ==
    [path |-> path, meta |-> meta, nested |-> nested, lit |-> lit]
NoAttr == Attr("", "", <<>>, NoLit)
DeclAttrs ==
    {Attr(REFLECT_ATTRIBUTE_NAME, "List",
          <<Tok("ident", DEBUG_ATTR, "bare", "")>>, NoLit),
     Attr(REFLECT_ATTRIBUTE_NAME, "List",
          <<Tok("ident", "Default", "bare", "")>>, NoLit),
     Attr(REFLECT_ATTRIBUTE_NAME, "List",
          <<Tok("ident", "Serialize", "bare", "")>>, NoLit),
     Attr(REFLECT_ATTRIBUTE_NAME, "List",
          <<Tok("ident", "FromPtr", "bare", "")>>, NoLit),
     Attr(REFLECT_ATTRIBUTE_NAME, "List",
          <<Tok("literal", "42", "bare", "")>>, NoLit),
     Attr(REFLECT_ATTRIBUTE_NAME, "Path", <<>>, NoLit),
     Attr(REFLECT_ATTRIBUTE_NAME, "Invalid", <<>>, NoLit),
     Attr(REFLECT_VALUE_ATTRIBUTE_NAME, "List",
          <<Tok("ident", DEBUG_ATTR, "bare", "")>>, NoLit),
     Attr(REFLECT_VALUE_ATTRIBUTE_NAME, "Path", <<>>, NoLit),
     Attr(REFLECT_VALUE_ATTRIBUTE_NAME, "Invalid", <<>>, NoLit),
     Attr(TYPE_PATH_ATTRIBUTE_NAME, "NameValue", <<>>,
          Lit("Str", <<"my_crate", "Foo">>)),
     Attr(TYPE_PATH_ATTRIBUTE_NAME, "NameValue", <<>>, Lit("Int", <<>>)),
     Attr("doc", "NameValue", <<>>, Lit("Str", <<"text">>))}

FieldNames == <<"a", "b", "c", "d">>
VariantNames == <<"A", "B", "C", "D">>
FieldLists(n) ==
    {[i \in 1..n |-> [name |-> FieldNames[i], attrs |-> c[i]]] :
        c \in [1..n -> {"active", "ignore", "bad"}]}
Fields(style, list) == [style |-> style, list |-> list]
UnitFields == Fields("Unit", <<>>)
StructFields ==
    {UnitFields}
    \cup {Fields(style, list) :
            style \in {"Named", "Unnamed"},
            list \in UNION {FieldLists(n) : n \in 0..MaxFields}}
\* The fields of an enum variant: none, or one field.
VariantFields ==
    {UnitFields,
     Fields("Unnamed", <<[name |-> "0", attrs |-> "active"]>>),
     Fields("Unnamed", <<[name |-> "0", attrs |-> "bad"]>>),
     Fields("Named", <<[name |-> "x", attrs |-> "ignore"]>>)}
VariantLists(n) ==
    {[i \in 1..n |-> [name |-> VariantNames[i], attrs |-> c[i][1],
                      fields |-> c[i][2]]] :
        c \in [1..n -> {"active", "bad"} \X VariantFields]}
Data(kind, fields, variants) ==
    [ident |-> "Foo", kind |-> kind, fields |-> fields, variants |-> variants]
NoData == [ident |-> "", kind |-> "", fields |-> UnitFields, variants |-> <<>>]
Datas ==
    {Data("Struct", f, <<>>) : f \in StructFields}
    \cup {Data("Enum", UnitFields, v) :
            v \in UNION {VariantLists(n) : n \in 0..MaxVariants}}
    \cup {Data("Union", Fields("Named", l), <<>>) : l \in FieldLists(1)}

\* The prov from_input's lists are parsed under: the Reflect derive on
\* a local type (type_kind is read by parse_container_default alone).
DeriveProvenance == Prov("DeriveLocalType", "Reflect", "Struct")

\* ----------------------------------------------------------------- state
attrVars == <<this, attrErr, last, ntok, nlists>>
deriveVars == <<pc, reflect_mode, type_path_alias, provenance, result, decl,
                seen, nattrs, registration>>
genVars == <<gen, call, rt, cells, threads>>
vars == <<this, traits, attrErr, last, ntok, nlists, pc, reflect_mode,
          type_path_alias, provenance, result, decl, seen, nattrs,
          registration, gen, call, rt, cells, threads>>

NoSeen == [normal |-> FALSE, value |-> FALSE, skipped |-> {}]
NoGen == [shape |-> ""]
NoCall == [op |-> "none"]
NoRuntime == [shape |-> ""]
NoCells == [shape |-> ""]
NoThreads == <<>>

\* The state before the first token and the first attribute.
Init ==
    /\ this = ContainerAttributes_default
    /\ traits = ContainerAttributes_default
    /\ attrErr = NoErr
    /\ last = [op |-> "init", tok |-> NoTok, prov |-> NoProv]
    /\ ntok = 0
    /\ nlists = 0
    /\ pc = "attrs"
    /\ reflect_mode = None
    /\ type_path_alias = None
    /\ provenance = DeriveProvenance
    /\ result = NoResult
    /\ decl = NoData
    /\ seen = NoSeen
    /\ nattrs = 0
    /\ registration = None
    /\ gen = NoGen
    /\ call = NoCall
    /\ rt = NoRuntime
    /\ cells = NoCells
    /\ threads = NoThreads

\* One round of parse_terminated's loop on the list being parsed.
ParseAttr(tok, prov) ==
    /\ attrErr = NoErr
    /\ ntok < MaxTokens
    /\ nlists < MaxLists
    /\ LET r == terminated_parser_step(this, tok, prov)
       IN  /\ this' = r.self
           /\ attrErr' = r.err
    /\ last' = [op |-> "parse", tok |-> tok, prov |-> prov]
    /\ ntok' = ntok + 1
    /\ UNCHANGED <<traits, nlists>>
    /\ UNCHANGED deriveVars
    /\ UNCHANGED genVars

\* The list ends: from_input merges it into traits and the next list
\* starts from the default.
MergeList ==
    /\ attrErr = NoErr
    /\ nlists < MaxLists
    /\ LET m == ContainerAttributes_merge(traits, this)
       IN  /\ traits' = m.self
           /\ attrErr' = m.err
    /\ this' = ContainerAttributes_default
    /\ last' = [op |-> "merge", tok |-> NoTok, prov |-> NoProv]
    /\ nlists' = nlists + 1
    /\ UNCHANGED ntok
    /\ UNCHANGED deriveVars
    /\ UNCHANGED genVars

NextAttr ==
    \/ \E tok \in AttrTokens : \E prov \in ProvenancesFor(tok) :
           ParseAttr(tok, prov)
    \/ MergeList

SpecAttr == Init /\ [][NextAttr]_vars

\* One iteration of from_input's loop, on the next attribute of the
\* declaration; an error makes from_input return.
HandleAttr(attr) ==
    /\ pc = "attrs"
    /\ nattrs < MaxAttrs
    /\ LET r == from_input_attr(
                    FromInputState(reflect_mode, traits, type_path_alias),
                    attr, provenance)
       IN  /\ reflect_mode' = r.st.reflect_mode
           /\ traits' = r.st.traits
           /\ type_path_alias' = r.st.type_path_alias
           /\ IF r.errs # <<>>
              THEN pc' = "done" /\ result' = DeriveErr(r.errs)
              ELSE UNCHANGED <<pc, result>>
    /\ seen' =
          [normal |-> seen.normal \/
                        (attr.meta = "List" /\ attr.path = REFLECT_ATTRIBUTE_NAME),
           value |-> seen.value \/
                        (/\ attr.meta \in {"List", "Path"}
                         /\ attr.path = REFLECT_VALUE_ATTRIBUTE_NAME),
           skipped |-> seen.skipped \cup
                        (IF attr.meta = "Invalid" THEN {attr.path} ELSE {})]
    /\ nattrs' = nattrs + 1
    /\ UNCHANGED <<provenance, decl, registration>>
    /\ UNCHANGED attrVars
    /\ UNCHANGED genVars

\* The loop is over: from_input analyses the declaration's data.
Analyse(data) ==
    /\ pc = "attrs"
    /\ result' = from_input_finish(
                     FromInputState(reflect_mode, traits, type_path_alias), data)
    /\ decl' = data
    /\ pc' = "done"
    /\ UNCHANGED <<traits, reflect_mode, type_path_alias, provenance, seen,
                   nattrs, registration>>
    /\ UNCHANGED attrVars
    /\ UNCHANGED genVars

\* The derive emits the implementations of the shape from_input returned,
\* get_type_registration among them.
Generate ==
    /\ pc = "done"
    /\ result.status = "ok"
    /\ registration = None
    /\ registration' = Some(derive_get_type_registration(result))
    /\ UNCHANGED <<pc, traits, reflect_mode, type_path_alias, provenance, result,
                   decl, seen, nattrs>>
    /\ UNCHANGED attrVars
    /\ UNCHANGED genVars

NextDerive ==
    \/ \E attr \in DeclAttrs : HandleAttr(attr)
    \/ \E data \in Datas : Analyse(data)
    \/ Generate

SpecDerive == Init /\ [][NextDerive]_vars

\* ------------------------------------------- state: generated trait methods
\* The reflected values at hand: two values of the deriving type Foo, one of
\* another type, and the dynamic representation of a tuple struct.
SelfType == SelfTypeName
SelfValues == {Value(SelfType, 0), Value(SelfType, 1)}
Values == SelfValues \cup {Value("Bar", 0), Value("DynamicTupleStruct", 0)}
TraitImpls == {NotImplemented, Implemented, Custom("my_fn")}

\* impl_value has run on a type whose attributes registered any of the
\* three special traits.
InitTraits ==
    /\ this = ContainerAttributes_default
    /\ traits = ContainerAttributes_default
    /\ attrErr = NoErr
    /\ last = [op |-> "init", tok |-> NoTok, prov |-> NoProv]
    /\ ntok = 0
    /\ nlists = 0
    /\ pc = "attrs"
    /\ reflect_mode = None
    /\ type_path_alias = None
    /\ provenance = DeriveProvenance
    /\ result = NoResult
    /\ decl = NoData
    /\ seen = NoSeen
    /\ nattrs = 0
    /\ registration = None
    /\ \E h \in TraitImpls, p \in TraitImpls, d \in TraitImpls :
           gen = [shape |-> "Value",
                  meta |-> ReflectMeta_new(
                      from_input_path_to_type(SelfType, None),
                      [ContainerAttributes_default EXCEPT
                           !.hash = h, !.partial_eq = p, !.debug = d])]
    /\ call = NoCall
    /\ rt = NoRuntime
    /\ cells = NoCells
    /\ threads = NoThreads

Called(op, self_v, arg, out) ==
    [op |-> op, self |-> self_v, arg |-> arg, out |-> out]
\* What a call of a generated method leaves alone.
calleeVars == <<this, traits, attrErr, last, ntok, nlists, pc, reflect_mode,
                type_path_alias, provenance, result, decl, seen, nattrs,
                registration, gen, rt, cells, threads>>

CallReflectHash(self_v) ==
    /\ call' = Called("reflect_hash", self_v, <<>>,
                      reflect_hash(gen.meta, SelfType, self_v))
    /\ UNCHANGED calleeVars

CallReflectPartialEq(self_v, value) ==
    /\ call' = Called("reflect_partial_eq", self_v, value,
                      reflect_partial_eq(gen.meta, SelfType, self_v, value))
    /\ UNCHANGED calleeVars

CallDebug(self_v) ==
    /\ call' = Called("debug", self_v, <<>>, debug(gen.meta, SelfType, self_v))
    /\ UNCHANGED calleeVars

NextTraits ==
    \/ \E self_v \in SelfValues : CallReflectHash(self_v)
    \/ \E self_v \in SelfValues, value \in Values :
           CallReflectPartialEq(self_v, value)
    \/ \E self_v \in SelfValues : CallDebug(self_v)

SpecTraits == InitTraits /\ [][NextTraits]_vars

\* --------------------------------------------- state: generated FromReflect
\* The fields from_input records for a struct: at their declaration index,
\* ignored or not, with any default behaviour; named "a", "b", .. in a
\* struct and unnamed in a tuple struct.
DefaultBehaviors ==
    {DefaultBehavior_Required, DefaultBehavior_Default,
     DefaultBehavior_Func("my_default")}
GenFields(n, named) ==
    {[i \in 1..n |-> [index |-> i - 1, ignore |-> c[i][1], default |-> c[i][2],
                      data |-> IF named THEN FieldNames[i] ELSE ""]] :
        c \in [1..n -> BOOLEAN \X DefaultBehaviors]}
GenTraits ==
    {ContainerAttributes_default,
     [ContainerAttributes_default EXCEPT !.idents = <<REFLECT_DEFAULT>>]}
Gen(shape, attrs, fields, variants) ==
    [shape |-> shape,
     meta |-> ReflectMeta_new(from_input_path_to_type(SelfTypeName, None), attrs),
     fields |-> fields, variants |-> variants]
GenStructs ==
    {Gen(IF named THEN "Struct" ELSE "TupleStruct", attrs, fields, <<>>) :
        <<named, attrs, fields>> \in
            UNION {{<<nm, a, f>> : a \in GenTraits, f \in GenFields(n, nm)} :
                      n \in 0..MaxFields, nm \in BOOLEAN}}
GenEnums ==
    {Gen("Enum", ContainerAttributes_default, <<>>,
         [i \in 1..n |-> [name |-> VariantNames[i]]]) : n \in 0..MaxVariants}

\* The data of a field: two values a program may hold in it.
Datum(n) == Term("datum", <<n>>)
FieldData == {Datum(1), Datum(2)}
\* The values of the deriving type.
SelfStructs(shape, fields) ==
    {Value(SelfTypeName, data) :
        data \in [Members(fields, shape = "TupleStruct") -> FieldData]}

AllSelfStructs ==
    UNION {SelfStructs(derived.shape, derived.fields) : derived \in GenStructs}

\* The reflected values from_reflect is called on: a dynamic tuple struct of
\* up to MaxFields fields and a dynamic struct that has each of the first
\* MaxFields names or not, every field convertible or not; an enum of a
\* declared or an undeclared variant; a value.
ReflectedFields == {Convertible(Datum(1)), Unconvertible}
TupleInputs ==
    {Reflected("TupleStruct", [i \in 1..n |-> DynamicField("", c[i])], "") :
        <<n, c>> \in UNION {{<<m, d>> : d \in [1..m -> ReflectedFields]} :
                               m \in 0..MaxFields}}
Present(c) == SelectSeq([i \in 1..MaxFields |-> i], LAMBDA i : c[i] # None)
StructInputs ==
    {Reflected("Struct",
               [k \in DOMAIN Present(c) |->
                   DynamicField(FieldNames[Present(c)[k]], c[Present(c)[k]][1])],
               "") :
        c \in [1..MaxFields -> {None} \cup {Some(v) : v \in ReflectedFields}]}
EnumInputs ==
    {Reflected("Enum", <<>>, name) :
        name \in Range(SubSeq(VariantNames, 1, MaxVariants)) \cup {"Z"}}
Inputs ==
    TupleInputs \cup StructInputs \cup EnumInputs
    \cup {Reflected("Value", <<>>, "")}

\* A FromReflect derive has run on a struct, a tuple struct or an enum.
InitFromReflect ==
    /\ this = ContainerAttributes_default
    /\ traits = ContainerAttributes_default
    /\ attrErr = NoErr
    /\ last = [op |-> "init", tok |-> NoTok, prov |-> NoProv]
    /\ ntok = 0
    /\ nlists = 0
    /\ pc = "attrs"
    /\ reflect_mode = None
    /\ type_path_alias = None
    /\ provenance = DeriveProvenance
    /\ result = NoResult
    /\ decl = NoData
    /\ seen = NoSeen
    /\ nattrs = 0
    /\ registration = None
    /\ gen \in GenStructs \cup GenEnums
    /\ call = NoCall
    /\ rt = NoRuntime
    /\ cells = NoCells
    /\ threads = NoThreads

\* The from_reflect and the clone_dynamic the derives emit for a shape.
derive_from_reflect(derived, reflect) ==
    CASE derived.shape = "Struct" ->
             Returned(from_reflect_impl_struct(derived, reflect))
      [] derived.shape = "TupleStruct" ->
             Returned(from_reflect_impl_tuple_struct(derived, reflect))
      [] derived.shape = "Enum" -> from_reflect_impl_enum(derived, reflect)

derive_clone_dynamic(derived, self_v) ==
    CASE derived.shape = "Struct" -> struct_clone_dynamic(derived, self_v)
      [] derived.shape = "TupleStruct" ->
             tuple_struct_clone_dynamic(derived, self_v)

CallFromReflect(reflect) ==
    /\ call' = Called("from_reflect", NoCall, reflect,
                      derive_from_reflect(gen, reflect))
    /\ UNCHANGED calleeVars

\* clone_dynamic on a value, and from_reflect on what it returned.
CallFromReflectOfClone(self_v) ==
    /\ gen.shape \in {"Struct", "TupleStruct"}
    /\ self_v \in SelfStructs(gen.shape, gen.fields)
    /\ call' = Called("from_reflect(clone_dynamic)", self_v,
                      derive_clone_dynamic(gen, self_v),
                      derive_from_reflect(gen, derive_clone_dynamic(gen, self_v)))
    /\ UNCHANGED calleeVars

NextFromReflect ==
    \/ \E reflect \in Inputs : CallFromReflect(reflect)
    \/ \E self_v \in AllSelfStructs : CallFromReflectOfClone(self_v)

SpecFromReflect == InitFromReflect /\ [][NextFromReflect]_vars

\* ------------------------------------------- properties: attribute layer
\* A step of SpecAttr is a parse of last'.tok under last'.prov into this, or
\* a merge of this (the list just parsed, "B") into traits (the accumulated
\* set, "A"); attrErr' is what the call returned.
ParseStep == last'.op = "parse"
MergeStep == last'.op = "merge"

IsSet(slot) == slot.tag # "NotImplemented"
Slot(attrs, name) ==
    CASE name = DEBUG_ATTR -> attrs.debug
      [] name = PARTIAL_EQ_ATTR -> attrs.partial_eq
      [] name = HASH_ATTR -> attrs.hash
SpecialOverlap(a, b) ==
    \E n \in SpecialTraitNames : IsSet(Slot(a, n)) /\ IsSet(Slot(b, n))
MarkerOverlap(a, b) == Range(a.idents) \cap Range(b.idents) # {}
FromReflectToggle(a) == a.from_reflect_attrs.auto_derive
TypePathToggle(a) == a.type_path_attrs.auto_derive
Differ(x, y) == x # None /\ y # None /\ x # y
ToggleErrors ==
    {FromReflectAlreadySet(v) : v \in BOOLEAN}
    \cup {TypePathAlreadySet(v) : v \in BOOLEAN}
NoDuplicates(s) == \A i, j \in DOMAIN s : s[i] = s[j] => i = j
TraitImplValues == {NotImplemented, Implemented, Custom("my_fn"), Custom("other_fn")}

\* The tri-state rule on one slot: before and other go in, after and err
\* come out (err is the error of the whole call the slot's merge is part of).
TriState(before, other, after, err) ==
    /\ ~IsSet(before) => after = other
    /\ ~IsSet(other) => after = before
    /\ IsSet(before) /\ IsSet(other) =>
           after = before /\ err = CONFLICTING_TYPE_DATA_MESSAGE

\* C1: TraitImpl::merge follows the tri-state rule wherever it is called: on
\* all pairs of slot values, on the three slots of a ContainerAttributes
\* merge (debug, then hash, then partial_eq, each reached when the slots
\* before it did not conflict) and on the custom-function form of a special
\* trait. A NotImplemented receiver takes other, a NotImplemented other
\* leaves the receiver alone, and two set states (equal ones included) are
\* a conflict error that leaves the receiver as it was.
C1_TraitImplMerge ==
    [][/\ \A a, b \in TraitImplValues :
              TriState(a, b, TraitImpl_merge(a, b).self, TraitImpl_merge(a, b).err)
       /\ MergeStep =>
              /\ TriState(traits.debug, this.debug, traits'.debug, attrErr')
              /\ (~(IsSet(traits.debug) /\ IsSet(this.debug))) =>
                     TriState(traits.hash, this.hash, traits'.hash, attrErr')
              /\ (~SpecialOverlap([traits EXCEPT !.partial_eq = NotImplemented],
                                  this)) =>
                     TriState(traits.partial_eq, this.partial_eq,
                              traits'.partial_eq, attrErr')
       /\ (ParseStep /\ last'.tok \in SpecialTokens /\ last'.tok.form = "paren") =>
              TriState(Slot(this, last'.tok.head), Custom(last'.tok.arg),
                       Slot(this', last'.tok.head), attrErr')]_vars

\* A merge found Debug set on both sides (nothing else could conflict) and
\* returned the conflict error, the accumulated slot staying as it was.
C1_Witness ==
    /\ last.op = "merge"
    /\ attrErr = CONFLICTING_TYPE_DATA_MESSAGE
    /\ traits.debug = Custom("my_fn")
    /\ ~IsSet(traits.hash) /\ ~IsSet(traits.partial_eq)
    /\ traits.idents = <<>>

\* C2: a special trait is set at most once: registering Debug, PartialEq or
\* Hash (bare or with a custom function) in a list whose slot for that trait
\* is already set, or merging a list into a set that has the slot set already,
\* is a conflict error and the slot keeps its first value.
C2_SpecialTraitSetOnce ==
    [][/\ (/\ ParseStep
           /\ last'.tok \in SpecialTokens
           /\ IsSet(Slot(this, last'.tok.head))) =>
              /\ attrErr' = CONFLICTING_TYPE_DATA_MESSAGE
              /\ Slot(this', last'.tok.head) = Slot(this, last'.tok.head)
       /\ (MergeStep /\ SpecialOverlap(traits, this)) =>
              /\ attrErr' = CONFLICTING_TYPE_DATA_MESSAGE
              /\ \A n \in SpecialTraitNames :
                     IsSet(Slot(traits, n)) => Slot(traits', n) = Slot(traits, n)]_vars

\* C3: a merge of B into A where a special-trait slot is set in both, or a
\* marker is in both, returns a conflict error (the conflicting-registration
\* error, unless the two sides also disagree on a toggle, which is reported
\* first), and the merge of B into A fails exactly when the merge of A into B
\* fails.
C3_MergeConflict ==
    [][MergeStep =>
          /\ SpecialOverlap(traits, this) =>
                 attrErr' = CONFLICTING_TYPE_DATA_MESSAGE
          /\ MarkerOverlap(traits, this) =>
                 /\ attrErr' \in {CONFLICTING_TYPE_DATA_MESSAGE} \cup ToggleErrors
                 /\ (attrErr' \in ToggleErrors) =>
                        \/ Differ(FromReflectToggle(traits), FromReflectToggle(this))
                        \/ Differ(TypePathToggle(traits), TypePathToggle(this))
          /\ (attrErr' # NoErr) <=>
                 (ContainerAttributes_merge(this, traits).err # NoErr)]_vars

\* Two lists that both register the marker Default were merged: the
\* conflict error came back.
C3_Witness ==
    /\ last.op = "merge"
    /\ attrErr = CONFLICTING_TYPE_DATA_MESSAGE
    /\ traits.idents = <<get_reflect_ident("Default")>>
    /\ ~IsSet(traits.debug) /\ ~IsSet(traits.hash) /\ ~IsSet(traits.partial_eq)
    /\ nlists = MaxLists

\* What a slot or a toggle holds after a merge of two sides that do not both
\* set it.
EitherSlot(a, b) == IF IsSet(a) THEN a ELSE b
EitherToggle(x, y) == IF x # None THEN x ELSE y
Disjoint(a, b) ==
    /\ ~SpecialOverlap(a, b)
    /\ ~MarkerOverlap(a, b)
    /\ FromReflectToggle(a) = None \/ FromReflectToggle(b) = None
    /\ TypePathToggle(a) = None \/ TypePathToggle(b) = None

\* C4: a merge of B into A that share no special-trait slot, no marker and
\* no toggle succeeds; every slot and toggle set on either side has the
\* value it had there, and the markers are A's followed by B's, in order.
C4_DisjointMerge ==
    [][(MergeStep /\ Disjoint(traits, this)) =>
          /\ attrErr' = NoErr
          /\ \A n \in SpecialTraitNames :
                 Slot(traits', n) = EitherSlot(Slot(traits, n), Slot(this, n))
          /\ FromReflectToggle(traits') =
                 EitherToggle(FromReflectToggle(traits), FromReflectToggle(this))
          /\ TypePathToggle(traits') =
                 EitherToggle(TypePathToggle(traits), TypePathToggle(this))
          /\ traits'.idents = traits.idents \o this.idents]_vars

\* The second list was merged with success into a first list it shares
\* nothing with: Debug and the marker Default come from the first list, the
\* type_path toggle from the second.
C4_Witness ==
    /\ last.op = "merge"
    /\ attrErr = NoErr
    /\ nlists = MaxLists
    /\ traits.debug = Implemented
    /\ traits.idents = <<get_reflect_ident("Default")>>
    /\ TypePathToggle(traits) = Some(FALSE)

\* C5: in a merge that reaches the toggles (no special-trait slot is set on
\* both sides), from_reflect set on both sides to different values is an
\* error naming the toggle and the value already there; otherwise the toggle
\* keeps the common value or takes the value of the one side that sets it.
\* The same holds of type_path once from_reflect merged, and the merge
\* succeeds when the markers are disjoint too. should_auto_derive is true on
\* an unset toggle, and the value of a set one.
C5_ToggleMerge ==
    [][/\ (MergeStep /\ ~SpecialOverlap(traits, this)) =>
              /\ IF Differ(FromReflectToggle(traits), FromReflectToggle(this))
                 THEN /\ attrErr' = FromReflectAlreadySet(FromReflectToggle(traits)[1])
                      /\ FromReflectToggle(traits') = FromReflectToggle(traits)
                 ELSE /\ FromReflectToggle(traits') =
                             EitherToggle(FromReflectToggle(traits),
                                          FromReflectToggle(this))
                      /\ IF Differ(TypePathToggle(traits), TypePathToggle(this))
                         THEN /\ attrErr' = TypePathAlreadySet(TypePathToggle(traits)[1])
                              /\ TypePathToggle(traits') = TypePathToggle(traits)
                         ELSE /\ TypePathToggle(traits') =
                                     EitherToggle(TypePathToggle(traits),
                                                  TypePathToggle(this))
                              /\ attrErr' \notin ToggleErrors
                              /\ (~MarkerOverlap(traits, this)) => attrErr' = NoErr
       /\ \A a \in {this', traits'} :
              /\ FromReflectAttrs_should_auto_derive(a.from_reflect_attrs) =
                     (FromReflectToggle(a) = None \/ FromReflectToggle(a) = Some(TRUE))
              /\ TypePathAttrs_should_auto_derive(a.type_path_attrs) =
                     (TypePathToggle(a) = None \/ TypePathToggle(a) = Some(TRUE))]_vars

\* A list with from_reflect = false was merged into a set that has
\* from_reflect = true: the error names the toggle and its first value.
C5_Witness ==
    /\ last.op = "merge"
    /\ attrErr = FromReflectAlreadySet(TRUE)
    /\ FromReflectToggle(traits) = Some(TRUE)

\* The forms parse_container_attribute hands to parse_ident: an identifier
\* that none of the lookahead's earlier branches takes.
IsMarkerToken(tok) ==
    /\ tok.lex = "ident"
    /\ tok.head \notin {"where", FROM_REFLECT_ATTR, TYPE_PATH_ATTR,
                        "no_field_bounds"} \cup SpecialTraitNames

\* C6: a bare marker that the list being parsed already holds is a conflict
\* error and the list is unchanged; a marker it does not hold, one that
\* differs only in case included, is appended; a merge of two lists that
\* share a marker fails; and no marker list ever holds a duplicate.
C6_UniqueMarkers ==
    [][/\ NoDuplicates(this'.idents)
       /\ NoDuplicates(traits'.idents)
       /\ (ParseStep /\ IsMarkerToken(last'.tok) /\ last'.tok.form = "bare") =>
              IF get_reflect_ident(last'.tok.head) \in Range(this.idents)
              THEN /\ attrErr' = CONFLICTING_TYPE_DATA_MESSAGE
                   /\ this'.idents = this.idents
              ELSE /\ attrErr' = NoErr
                   /\ this'.idents =
                          Append(this.idents, get_reflect_ident(last'.tok.head))
       /\ (MergeStep /\ MarkerOverlap(traits, this)) => attrErr' # NoErr]_vars

\* Default was registered a second time in a list that holds Default and
\* default (two distinct markers): the conflict error came back.
C6_Witness ==
    /\ last.op = "parse"
    /\ last.tok = Tok("ident", "Default", "bare", "")
    /\ attrErr = CONFLICTING_TYPE_DATA_MESSAGE
    /\ this.idents = <<get_reflect_ident("Default"), get_reflect_ident("default")>>

CarriesReflect == seen.normal \/ REFLECT_ATTRIBUTE_NAME \in seen.skipped
CarriesReflectValue == seen.value \/ REFLECT_VALUE_ATTRIBUTE_NAME \in seen.skipped
HasError(msg) == \E i \in DOMAIN result.errs : result.errs[i].msg = msg

\* C7: once from_input has returned on a declaration carrying both a
\* '#[reflect(...)]' and a '#[reflect_value]' or '#[reflect_value(...)]', in
\* any order and among any other attributes, what it returned is an error;
\* and the both-modes error is returned to no declaration carrying one mode
\* only.
C7_BothModesRejected ==
    /\ (pc = "done" /\ CarriesReflect /\ CarriesReflectValue) =>
           result.status = "err"
    /\ (pc = "done" /\ HasError(BothModes)) =>
           (CarriesReflect /\ CarriesReflectValue)

\* C9: once from_input has returned on a declaration carrying a
\* '#[reflect(...)]' or '#[reflect_value(...)]' that forms no attribute
\* list, what it returned is an error.
C9_MalformedRejected ==
    (pc = "done"
     /\ seen.skipped \cap {REFLECT_ATTRIBUTE_NAME, REFLECT_VALUE_ATTRIBUTE_NAME} # {})
    => result.status = "err"

AnyBad(list) == \E i \in DOMAIN list : list[i].attrs = "bad"
\* The records of a field list: one per field, at its declaration position.
FieldRecords(records, list) ==
    /\ Len(records) = Len(list)
    /\ \A i \in DOMAIN list :
           /\ records[i].index = i - 1
           /\ records[i].data = list[i].name
           /\ records[i].ignore = (list[i].attrs = "ignore")
ShapeOf(style) ==
    CASE style = "Named" -> "Struct"
      [] style = "Unnamed" -> "TupleStruct"
      [] style = "Unit" -> "UnitStruct"

\* C10: when from_input has analysed a declaration in normal mode, a union
\* is the unions error; a struct whose field attributes all parse is Struct,
\* TupleStruct or UnitStruct by the style of its fields, with one record per
\* declared field, ignored ones included, whose index is the field's
\* position; an enum whose attributes all parse is Enum, with one record per
\* variant and, in it, one per field, at their positions.
C10_NormalModeShape ==
    (pc = "done" /\ decl # NoData /\ reflect_mode # Some("Value")) =>
        CASE decl.kind = "Union" ->
                 /\ result.status = "err"
                 /\ HasError(UnionsUnsupported)
          [] decl.kind = "Struct" ->
                 IF AnyBad(decl.fields.list) THEN result.status = "err"
                 ELSE /\ result.status = "ok"
                      /\ result.shape = ShapeOf(decl.fields.style)
                      /\ FieldRecords(result.fields, decl.fields.list)
          [] decl.kind = "Enum" ->
                 IF \/ AnyBad(decl.variants)
                    \/ \E v \in DOMAIN decl.variants :
                           AnyBad(decl.variants[v].fields.list)
                 THEN result.status = "err"
                 ELSE /\ result.status = "ok"
                      /\ result.shape = "Enum"
                      /\ Len(result.variants) = Len(decl.variants)
                      /\ \A v \in DOMAIN decl.variants :
                             /\ result.variants[v].index = v - 1
                             /\ result.variants[v].data = decl.variants[v].name
                             /\ FieldRecords(result.variants[v].fields,
                                             decl.variants[v].fields.list)

\* A tuple struct under '#[reflect(...)]' whose first field is ignored: the
\* second field's record still has index 1.
C10_Witness ==
    /\ pc = "done"
    /\ seen.normal
    /\ result.status = "ok"
    /\ result.shape = "TupleStruct"
    /\ Len(result.fields) = 2
    /\ result.fields[1].ignore
    /\ result.fields[2].index = 1

\* C11: when from_input has analysed a declaration in value mode, it
\* returned the Value shape with no field and no variant record, whatever
\* the declaration is: a union, and a struct or enum with a field attribute
\* that does not parse, included.
C11_ValueModeShape ==
    (pc = "done" /\ decl # NoData /\ reflect_mode = Some("Value")) =>
        /\ result.status = "ok"
        /\ result.shape = "Value"
        /\ result.fields = <<>>
        /\ result.variants = <<>>

\* A struct with a field attribute that does not parse was analysed in
\* value mode, with success.
C11_Witness ==
    /\ pc = "done"
    /\ reflect_mode = Some("Value")
    /\ decl.kind = "Struct"
    /\ AnyBad(decl.fields.list)
    /\ result.status = "ok"
    /\ result.shape = "Value"

\* The errors the attributes of a declaration's fields and variants call
\* for: one per field and one per variant whose attributes do not parse.
FieldErrors(list, variant) ==
    {Error(BadFieldAttr, At("field", variant, i - 1)) :
        i \in {j \in DOMAIN list : list[j].attrs = "bad"}}
VariantErrors(variants) ==
    {Error(BadFieldAttr, At("variant", v - 1, -1)) :
        v \in {w \in DOMAIN variants : variants[w].attrs = "bad"}}
    \cup UNION {FieldErrors(variants[v].fields.list, v - 1) : v \in DOMAIN variants}

\* C12: when from_input has analysed a struct or an enum in normal mode, the
\* error it returned holds the error of every field and of every variant
\* whose attributes do not parse.
C12_AllErrorsCollected ==
    (pc = "done" /\ decl # NoData /\ reflect_mode # Some("Value")) =>
        /\ decl.kind = "Struct" =>
               FieldErrors(decl.fields.list, -1) \subseteq Range(result.errs)
        /\ decl.kind = "Enum" =>
               VariantErrors(decl.variants) \subseteq Range(result.errs)

\* ------------------------------------------------- registration properties
Inserted == registration[1]
Keys(inserts) == [i \in DOMAIN inserts |-> inserts[i].key]
\* The positions at which a key is inserted.
Positions(inserts, key) == {i \in DOMAIN inserts : inserts[i].key = key}
\* The sequence without its first n elements.
Drop(s, n) == SubSeq(s, n + 1, Len(s))

\* C13: the generated get_type_registration inserts ReflectFromPtr first,
\* the SerializationData record second when it is emitted, and then one
\* capability per registered marker identifier, in the order the identifiers
\* were registered; nothing else is inserted.
C13_RegistrationOrder ==
    (registration # None) =>
        /\ Len(Inserted) >= 1
        /\ Inserted[1] = Insert(ReflectFromPtr, {})
        /\ LET n == IF Len(Inserted) >= 2 /\ Inserted[2].key = SerializationData
                    THEN 2 ELSE 1
           IN  /\ Keys(Drop(Inserted, n)) = traits.idents
               /\ \A i \in DOMAIN Inserted : (i > n) => (Inserted[i].arg = {})
        /\ result.shape \in {"Struct", "TupleStruct", "UnitStruct"} =>
               (Len(Inserted) >= 2 /\ Inserted[2].key = SerializationData)
        /\ result.shape \in {"Value", "Enum"} =>
               (Len(Inserted) = 1 + Len(traits.idents))

\* Two markers registered by two attributes, in an order that is not the
\* alphabetical one, after both fixed insertions.
C13_Witness ==
    /\ registration # None
    /\ traits.idents = <<get_reflect_ident("Serialize"),
                         get_reflect_ident("Default")>>
    /\ Keys(Inserted) = <<ReflectFromPtr, SerializationData,
                          get_reflect_ident("Serialize"),
                          get_reflect_ident("Default")>>

IgnoredPositions(list) == {i - 1 : i \in {j \in DOMAIN list : list[j].attrs = "ignore"}}

\* C14: the generated get_type_registration of a struct or tuple struct
\* inserts a SerializationData record if and only if at least one field of
\* the declaration is ignored, and the record is built from exactly the
\* positions of the ignored fields.
C14_SerializationDataIffIgnored ==
    (registration # None /\ decl.kind = "Struct"
        /\ reflect_mode # Some("Value")) =>
        /\ (Positions(Inserted, SerializationData) # {})
               <=> (IgnoredPositions(decl.fields.list) # {})
        /\ \A i \in Positions(Inserted, SerializationData) :
               Inserted[i].arg = IgnoredPositions(decl.fields.list)

\* C15: the keys the generated get_type_registration inserts are pairwise
\* distinct.
C15_DistinctKeys ==
    (registration # None) =>
        \A i, j \in DOMAIN Inserted :
            (Inserted[i].key = Inserted[j].key) => (i = j)

\* ------------------------------------------ generated trait method properties
\* What a get_*_impl returns for a slot: no code exactly when the slot is
\* NotImplemented, a forwarding body for Implemented, a call of the user's
\* function for Custom.
CodeFor(code, slot, std_trait) ==
    CASE slot.tag = "NotImplemented" -> code = None
      [] slot.tag = "Implemented" -> code = Some(Forwarding(std_trait))
      [] slot.tag = "Custom" -> code = Some(Calling(slot.path))

IsStructShape == gen.shape \in {"Struct", "TupleStruct"}
HasContainerDefault == REFLECT_DEFAULT \in Range(gen.meta.traits.idents)
\* The member a field of the deriving type is: its name in a struct, its
\* declaration index in a tuple struct.
MemberOf(field) ==
    IF gen.shape = "TupleStruct" THEN Member_Unnamed(field.index)
    ELSE Member_Named(field.data)
\* The reflected values the input holds for a field: under the field's name,
\* or at its declaration index.
Held(reflect, field) ==
    IF gen.shape = "TupleStruct"
    THEN {reflect.fields[i].value :
             i \in {j \in DOMAIN reflect.fields : j = field.index + 1}}
    ELSE {reflect.fields[i].value :
             i \in {j \in DOMAIN reflect.fields :
                       reflect.fields[j].name = field.data}}
Absent(reflect, field) == Held(reflect, field) = {}
Converts(reflect, field) == \E v \in Held(reflect, field) : v.ok
\* The data the held value converts to.
Converted(reflect, field) == (CHOOSE v \in Held(reflect, field) : v.ok).data
DefaultFor(field) ==
    IF field.default.tag = "Func" THEN PathCall(field.default.path)
    ELSE FQDefault_default
\* A field's strategy fails the reconstruction: a present value that does
\* not convert, or the absence of a required field.
Fails(reflect, field) ==
    \/ ~Absent(reflect, field) /\ ~Converts(reflect, field)
    \/ Absent(reflect, field) /\ field.default.tag = "Required"
ActiveFields == {gen.fields[i] : i \in {j \in DOMAIN gen.fields : ~gen.fields[j].ignore}}
IgnoredFields == {gen.fields[i] : i \in {j \in DOMAIN gen.fields : gen.fields[j].ignore}}

C18_DefaultThenOverlay ==
    (IsStructShape /\ HasContainerDefault /\ call.op = "from_reflect"
        /\ call.arg.kind = gen.shape) =>
        /\ ~call.out.panic
        /\ call.out.value # None
        /\ \A i \in DOMAIN gen.fields :
               call.out.value[1].data[MemberOf(gen.fields[i])] =
                   IF ~gen.fields[i].ignore /\ Converts(call.arg, gen.fields[i])
                   THEN Converted(call.arg, gen.fields[i])
                   ELSE Term("Self::default", <<gen.fields[i].index>>)

\* C19: from_reflect of an enum is None on an input that is not an enum, the
\* value of the variant's constructor on a declared variant name, and a panic
\* whose message holds the variant name and the type name on an undeclared
\* one.
C19_EnumFromReflect ==
    (gen.shape = "Enum" /\ call.op = "from_reflect") =>
        LET declared == {gen.variants[i].name : i \in DOMAIN gen.variants}
        IN  /\ (call.arg.kind # "Enum") =>
                   (~call.out.panic /\ call.out.value = None)
            /\ (call.arg.kind = "Enum" /\ call.arg.variant \in declared) =>
                   /\ ~call.out.panic
                   /\ call.out.value =
                          Some(variant_constructor(call.arg.variant, call.arg))
            /\ (call.arg.kind = "Enum" /\ call.arg.variant \notin declared) =>
                   /\ call.out.panic
                   /\ call.arg.variant \in Range(call.out.value)
                   /\ SelfTypeName \in Range(call.out.value)

\* An enum with declared variants panics on the variant name "Z".
C19_Witness ==
    /\ gen.shape = "Enum"
    /\ Len(gen.variants) = 2
    /\ call.op = "from_reflect"
    /\ call.arg.kind = "Enum"
    /\ call.arg.variant = "Z"
    /\ call.out.panic

\* C20: from_reflect(clone_dynamic(v)) of a struct or tuple struct, whatever
\* fields are ignored, is Some(w) with every active field of w equal to v's.
C20_RoundTrip ==
    (IsStructShape /\ call.op = "from_reflect(clone_dynamic)") =>
        /\ ~call.out.panic
        /\ call.out.value # None
        /\ \A field \in ActiveFields :
               call.out.value[1].data[MemberOf(field)] =
                   call.self.data[MemberOf(field)]

\* ------------------------------------------------ properties: toggles, bounds
IsToggleHead(tok) ==
    tok.lex = "ident" /\ tok.head \in {FROM_REFLECT_ATTR, TYPE_PATH_ATTR}
ToggleOf(attrs, name) ==
    IF name = FROM_REFLECT_ATTR THEN FromReflectToggle(attrs)
    ELSE TypePathToggle(attrs)
\* The derive under which a toggle's literal is overridden.
DeriveOf(name) ==
    IF name = FROM_REFLECT_ATTR THEN "FromReflect" ELSE "TypePath"
\* The value a toggle token records under a provenance.
Recorded(tok, prov) ==
    IF prov.trait_ = DeriveOf(tok.head) THEN TRUE ELSE tok.arg = "true"
IsBoolToggle(tok) ==
    IsToggleHead(tok) /\ tok.form = "eq" /\ tok.arg \in {"true", "false"}

\* C25: in one attribute list, a toggle that is already set and is set
\* again to a different value is a conflict: the parse returns an error and
\* the toggle keeps its first value.
C25_ToggleSetTwice ==
    [][(ParseStep /\ IsBoolToggle(last'.tok)
            /\ ToggleOf(this, last'.tok.head) # None
            /\ ToggleOf(this, last'.tok.head) # Some(Recorded(last'.tok, last'.prov)))
          => (/\ attrErr' # NoErr
              /\ ToggleOf(this', last'.tok.head) = ToggleOf(this, last'.tok.head))]_vars

Concatenated(own, other) ==
    CASE own = None /\ other = None -> None
      [] own = None /\ other # None -> other
      [] own # None /\ other = None -> own
      [] own # None /\ other # None -> Some(own[1] \o other[1])

\* C27: a merge fails only on a special trait, a toggle or a marker, never
\* because of no_field_bounds or the where clause; after a merge that
\* succeeds no_field_bounds is the disjunction of both sides and the where
\* clause the concatenation of both sides' predicates in merge order, and
\* no_field_bounds never returns to false.
C27_BoundsMerge ==
    [][MergeStep =>
          /\ (attrErr' # NoErr) =>
                 \/ SpecialOverlap(traits, this)
                 \/ Differ(FromReflectToggle(traits), FromReflectToggle(this))
                 \/ Differ(TypePathToggle(traits), TypePathToggle(this))
                 \/ MarkerOverlap(traits, this)
          /\ (attrErr' = NoErr) =>
                 /\ traits'.no_field_bounds =
                        (traits.no_field_bounds \/ this.no_field_bounds)
                 /\ traits'.custom_where =
                        Concatenated(traits.custom_where, this.custom_where)
          /\ traits.no_field_bounds => traits'.no_field_bounds]_vars

\* Two lists with a where clause each, the first with no_field_bounds, were
\* merged: both predicates are kept, in merge order.
C27_Witness ==
    /\ last.op = "merge"
    /\ nlists = 2
    /\ attrErr = NoErr
    /\ traits.no_field_bounds
    /\ traits.custom_where = Some(<<"T: Clone", "U: Copy">>)

\* --------------------------------------------- properties: container errors
\* from_input returned from its loop over the attributes: nothing of the
\* declaration's data was analysed.
ReturnedFromLoop == pc = "done" /\ decl = NoData

\* C24: the first attribute of the declaration that produces an error makes
\* from_input return that single container-level error, no attribute before
\* it having produced one; once it has returned this way no field or variant
\* is analysed and what it returned never changes.
C24_ContainerErrorsAbort ==
    [][/\ (pc = "attrs" /\ pc' = "done" /\ decl' = NoData) =>
              /\ result = NoResult
              /\ nattrs' = nattrs + 1
              /\ result'.status = "err"
              /\ Len(result'.errs) = 1
              /\ result'.errs[1].at = At("container", -1, -1)
              /\ result'.fields = <<>> /\ result'.variants = <<>>
       /\ ReturnedFromLoop => (result' = result /\ decl' = decl /\ pc' = pc)]_vars

\* The third attribute of a declaration is the first to fail: the list it
\* brings registers Debug, which an earlier list registered.
C24_Witness ==
    /\ ReturnedFromLoop
    /\ nattrs = 3
    /\ result.errs = <<ContainerError(CONFLICTING_TYPE_DATA_MESSAGE)>>

\* ------------------------------------------------------ type path identity
\* PathToType (derive_data.rs 574-588): the five ways a type's path is known.
\* A path is its sequence of segments; ty is the tokens of the aliased type.
PathToType_Internal(ident) ==
    [tag |-> "Internal", ident |-> ident, path |-> <<>>]
PathToType_External(path) ==
    [tag |-> "External", ident |-> "", path |-> path]
PathToType_Primtive(ident) ==
    [tag |-> "Primtive", ident |-> ident, path |-> <<>>]
PathToType_AliasedNamed(ty, alias) ==
    [tag |-> "AliasedNamed", ident |-> ty, path |-> alias]
PathToType_AliasedAnonymous(ty, alias) ==
    [tag |-> "AliasedAnonymous", ident |-> ty, path |-> <<alias>>]

\* PathToType::has_module.
PathToType_has_module(self_p) ==
    ~(self_p.tag \in {"Primtive", "AliasedAnonymous"})

\* The expression module_path!() and the crate it starts with.
MODULE_PATH_MACRO == "::core::module_path!()"
CRATE_OF_MODULE_PATH == "::core::module_path!().split(':').next().unwrap()"

\* PathToType::crate_name: Some(expression) or None.  The match has no arm
\* for AliasedAnonymous; the identity carries no path, so it gives None.
PathToType_crate_name(self_p) ==
    CASE self_p.tag = "Internal" -> Some(CRATE_OF_MODULE_PATH)
      [] self_p.tag \in {"External", "AliasedNamed"} -> Some(Head(self_p.path))
      [] OTHER -> None

\* segments.reduce(|path, ident| path + "::" + &ident)
RECURSIVE reduce_segments(_)
reduce_segments(segments) ==
    IF Len(segments) = 1
    THEN segments[1]
    ELSE reduce_segments(SubSeq(segments, 1, Len(segments) - 1))
             \o "::" \o segments[Len(segments)]

\* PathToType::module_path: every segment but the last, joined by "::".
PathToType_module_path(self_p) ==
    CASE self_p.tag = "Internal" -> Some(MODULE_PATH_MACRO)
      [] self_p.tag \in {"External", "AliasedNamed"} ->
             Some(reduce_segments(SubSeq(self_p.path, 1, Len(self_p.path) - 1)))
      [] OTHER -> None

\* PathToType::name: the last segment, or the identifier itself.
PathToType_name(self_p) ==
    CASE self_p.tag \in {"Internal", "Primtive"} -> self_p.ident
      [] OTHER -> self_p.path[Len(self_p.path)]

\* PathToType::fully_qualified_path: the summands of a String expression.
PathToType_fully_qualified_path(self_p) ==
    CASE self_p.tag \in {"Internal", "External", "AliasedNamed"} ->
             <<PathToType_module_path(self_p)[1] \o ".to_owned()",
               "::" \o PathToType_name(self_p)>>
      [] OTHER -> <<PathToType_name(self_p) \o ".to_owned()">>

\* Generic parameters: lifetimes, type parameters, const parameters.
GenericParam_Lifetime(name) == [kind |-> "lifetime", ident |-> name]
GenericParam_Type(name) == [kind |-> "type", ident |-> name]
GenericParam_Const(name) == [kind |-> "const", ident |-> name]

\* generics.type_params() mapped to <T as WithPath>::type_path(), then
\* .path() or .short_path() on each.
RECURSIVE generic_type_paths(_, _)
generic_type_paths(params, method) ==
    IF params = <<>>
    THEN <<>>
    ELSE (IF Head(params).kind = "type"
          THEN <<"<" \o Head(params).ident \o " as WithPath>::type_path()."
                     \o method \o "()">>
          ELSE <<>>)
         \o generic_type_paths(Tail(params), method)

\* Whether any parameter is not a lifetime.
type_path_is_generic(params) ==
    \E i \in 1..Len(params) : params[i].kind # "lifetime"

\* The two constructors of TypePath the generator can emit; an argument that
\* is not passed is None, an Option interpolated as None passes no tokens.
TypePath_new_anonymous(path, short_path) ==
    [ctor |-> "new_anonymous", path |-> path, short_path |-> short_path,
     ident |-> None, crate_name |-> None, module_path |-> None]
TypePath_new_named(path, short_path, ident, crate_name, module_path) ==
    [ctor |-> "new_named", path |-> path, short_path |-> short_path,
     ident |-> Some(ident), crate_name |-> crate_name,
     module_path |-> module_path]

type_path_expr(path_to_type, params) ==
    IF type_path_is_generic(params)
    THEN PathToType_fully_qualified_path(path_to_type) \o <<"::<">>
             \o generic_type_paths(params, "path") \o <<">">>
    ELSE PathToType_fully_qualified_path(path_to_type)

type_short_path_expr(path_to_type, params) ==
    IF type_path_is_generic(params)
    THEN <<PathToType_name(path_to_type) \o "<">>
             \o generic_type_paths(params, "short_path") \o <<">">>
    ELSE <<PathToType_name(path_to_type) \o ".to_owned()">>

\* type_path_generator(meta): the TypePath constructor call it emits.
type_path_generator(meta) ==
    IF PathToType_has_module(meta.path_to_type)
    THEN TypePath_new_anonymous(
             type_path_expr(meta.path_to_type, meta.generics),
             type_short_path_expr(meta.path_to_type, meta.generics))
    ELSE TypePath_new_named(
             type_path_expr(meta.path_to_type, meta.generics),
             type_short_path_expr(meta.path_to_type, meta.generics),
             PathToType_name(meta.path_to_type),
             PathToType_crate_name(meta.path_to_type),
             PathToType_module_path(meta.path_to_type))

\* ----------------------------------------------- state: type path generator
MaxParams == 2
TypeIdents == {"Foo", "Bar"}
PrimitiveIdents == {"bool", "u8"}
TypePaths == {<<"my_crate", "Foo">>, <<"my_crate", "foo", "Bar">>,
              <<"other", "a", "b", "Baz">>}
AnonymousAliases == {"Anon", "(A, B)"}
PathToTypes ==
    {PathToType_Internal(i) : i \in TypeIdents}
        \cup {PathToType_External(p) : p \in TypePaths}
        \cup {PathToType_Primtive(i) : i \in PrimitiveIdents}
        \cup {PathToType_AliasedNamed("Foo", p) : p \in TypePaths}
        \cup {PathToType_AliasedAnonymous("Foo", a) : a \in AnonymousAliases}
GenericParams == {GenericParam_Lifetime("'a"), GenericParam_Type("T"),
                  GenericParam_Const("N")}
Generics == UNION {[1..n -> GenericParams] : n \in 0..MaxParams}

\* A derive has analysed a type of any identity and any generics.
InitTypePath ==
    /\ this = ContainerAttributes_default
    /\ traits = ContainerAttributes_default
    /\ attrErr = NoErr
    /\ last = [op |-> "init", tok |-> NoTok, prov |-> NoProv]
    /\ ntok = 0
    /\ nlists = 0
    /\ pc = "attrs"
    /\ reflect_mode = None
    /\ type_path_alias = None
    /\ provenance = DeriveProvenance
    /\ result = NoResult
    /\ decl = NoData
    /\ seen = NoSeen
    /\ nattrs = 0
    /\ registration = None
    /\ \E p \in PathToTypes, g \in Generics :
           gen = [shape |-> "TypePath",
                  meta |-> [traits |-> ContainerAttributes_default,
                            path_to_type |-> p, generics |-> g]]
    /\ call = NoCall
    /\ rt = NoRuntime
    /\ cells = NoCells
    /\ threads = NoThreads

CallHasModule ==
    /\ gen.shape = "TypePath"
    /\ call' = Called("has_module", gen.meta.path_to_type, None,
                      PathToType_has_module(gen.meta.path_to_type))
    /\ UNCHANGED calleeVars

CallTypePathGenerator ==
    /\ gen.shape = "TypePath"
    /\ call' = Called("type_path_generator", gen.meta.path_to_type,
                      gen.meta.generics, type_path_generator(gen.meta))
    /\ UNCHANGED calleeVars

NextTypePath ==
    \/ CallHasModule
    \/ CallTypePathGenerator

SpecTypePath == InitTypePath /\ [][NextTypePath]_vars

\* ------------------------------------------------- properties: type paths
\* has_module is true exactly for the identities whose crate_name and
\* module_path are Some: internal, external and named alias.
HasModuleMatchesOptions ==
    call.op = "has_module" =>
        /\ call.out = (PathToType_crate_name(call.self) # None
                         /\ PathToType_module_path(call.self) # None)
        /\ call.out = (call.self.tag \in {"Internal", "External", "AliasedNamed"})

\* C30: has_module is true exactly for the identities with a crate name and
\* a module path, and type_path_generator emits a named type path (with
\* ident, crate name and module path) exactly when has_module is true and an
\* anonymous one (path and short path only) exactly when it is false.
C30_NamedIffHasModule ==
    /\ HasModuleMatchesOptions
    /\ (call.op = "type_path_generator") =>
           IF PathToType_has_module(call.self)
           THEN /\ call.out.ctor = "new_named"
                /\ call.out.ident # None
                /\ call.out.crate_name # None
                /\ call.out.module_path # None
           ELSE /\ call.out.ctor = "new_anonymous"
                /\ call.out.ident = None
                /\ call.out.crate_name = None
                /\ call.out.module_path = None

\* ----------------------------------------------- library: tuple structs
\* A boxed reflected value as the library sees it: what reflect_ref says it
\* is, its fields, the TypeId of the concrete type behind the box, and whether
\* that type is a full Reflect type (into_full gives Ok) or a dynamic
\* representation (into_full gives Err).
Boxed(kind, type_id, full, fields) ==
    [kind |-> kind, fields |-> fields, variant |-> "", type_id |-> type_id,
     full |-> full]
\* A field value: a u32, or a value of a type that registered no PartialEq
\* and that u32 does not convert from.
FieldValue(type_id, data) ==
    [ok |-> type_id = "u32", data |-> data, type_id |-> type_id]
DynamicTupleStruct(fields) ==
    Boxed("TupleStruct", "DynamicTupleStruct", FALSE, fields)

\* The attributes the field types were reflected with.
FieldMeta(type_id) ==
    ReflectMeta_new(from_input_path_to_type(type_id, None),
        [ContainerAttributes_default EXCEPT
            !.partial_eq = IF type_id = "u32" THEN Implemented
                           ELSE NotImplemented])

\* PartialReflect::reflect_partial_eq of a field value: what impl_value
\* emitted for its type, None by the trait's provided method otherwise.
field_reflect_partial_eq(field_value, value) ==
    reflect_partial_eq(FieldMeta(field_value.type_id), field_value.type_id,
                       field_value, value)

\* PartialReflect::apply of a field value (impl_value): clone a value of the
\* same type into self, panic on any other.
field_apply(field_value, value) ==
    IF value.type_id = field_value.type_id
    THEN Returned(value)
    ELSE Panicked(<<"Value is not ", field_value.type_id, ".">>)

\* TupleStruct::field_len.
TupleStruct_field_len(self_v) == Len(self_v.fields)

\* TupleStructFieldIter::new, and the iter_fields that builds it.
TupleStructFieldIter_new(value) == [tuple_struct |-> value, index |-> 0]
TupleStruct_iter_fields(self_v) == TupleStructFieldIter_new(self_v)

\* Iterator::next: [self, out].
TupleStructFieldIter_next(self_it) ==
    [self |-> [self_it EXCEPT !.index = self_it.index + 1],
     out |-> TupleStruct_field(self_it.tuple_struct, self_it.index)]

\* Iterator::size_hint: (lower, upper).
TupleStructFieldIter_size_hint(self_it) ==
    <<TupleStruct_field_len(self_it.tuple_struct),
      Some(TupleStruct_field_len(self_it.tuple_struct))>>

\* The loop of tuple_struct_partial_eq over b's fields, from index i on.
RECURSIVE tuple_struct_partial_eq_from(_, _, _)
tuple_struct_partial_eq_pair_unknown_is_unequal(a, step, i, eq_result) ==
    IF eq_result = Some(FALSE) \/ eq_result = None
    THEN Some(FALSE)
    ELSE tuple_struct_partial_eq_from(a, step.self, i + 1)
tuple_struct_partial_eq_pair(a, step, i, eq_result) ==
    IF eq_result = Some(FALSE) \/ eq_result = None
    THEN eq_result
    ELSE tuple_struct_partial_eq_from(a, step.self, i + 1)
tuple_struct_partial_eq_step(a, step, i) ==
    IF step.out = None THEN Some(TRUE)
    ELSE IF TupleStruct_field(a, i) = None THEN Some(FALSE)
    ELSE tuple_struct_partial_eq_pair(a, step, i,
             field_reflect_partial_eq(TupleStruct_field(a, i)[1], step.out[1]))
tuple_struct_partial_eq_from(a, fields_it, i) ==
    tuple_struct_partial_eq_step(a, TupleStructFieldIter_next(fields_it), i)

tuple_struct_partial_eq(a, b) ==
    IF b.kind # "TupleStruct" THEN Some(FALSE)
    ELSE IF TupleStruct_field_len(a) # TupleStruct_field_len(b) THEN Some(FALSE)
    ELSE tuple_struct_partial_eq_from(a, TupleStruct_iter_fields(b), 0)

\* What a '&mut self' call that may panic leaves: self as it stands when the
\* call returns or unwinds, and the panic message, <<>> when it returned.
Left(self_v, panic) == [self |-> self_v, panic |-> panic]

\* The loop of apply over the fields of value, from index i on.
RECURSIVE tuple_struct_apply_from(_, _, _)
tuple_struct_apply_step_append(self_v, step, i) ==
    IF step.out = None THEN Left(self_v, <<>>)
    ELSE IF TupleStruct_field(self_v, i) = None
    THEN tuple_struct_apply_from(
             [self_v EXCEPT !.fields = Append(@, DynamicField("", step.out[1]))],
             step.self, i + 1)
    ELSE IF field_apply(TupleStruct_field(self_v, i)[1], step.out[1]).panic
    THEN Left(self_v, field_apply(TupleStruct_field(self_v, i)[1],
                                  step.out[1]).value)
    ELSE tuple_struct_apply_from(
             [self_v EXCEPT !.fields[i + 1].value = step.out[1]],
             step.self, i + 1)
tuple_struct_apply_field(self_v, step, i, applied) ==
    IF applied.panic
    THEN Left(self_v, applied.value)
    ELSE tuple_struct_apply_from(
             [self_v EXCEPT !.fields[i + 1].value = applied.value],
             step.self, i + 1)
tuple_struct_apply_step(self_v, step, i) ==
    IF step.out = None THEN Left(self_v, <<>>)
    ELSE IF TupleStruct_field(self_v, i) = None
    THEN tuple_struct_apply_from(self_v, step.self, i + 1)
    ELSE tuple_struct_apply_field(self_v, step, i,
             field_apply(TupleStruct_field(self_v, i)[1], step.out[1]))
tuple_struct_apply_from(self_v, fields_it, i) ==
    tuple_struct_apply_step(self_v, TupleStructFieldIter_next(fields_it), i)

NON_TUPLE_STRUCT_PANIC ==
    <<"Attempted to apply non-TupleStruct type to TupleStruct type.">>

\* PartialReflect::apply of DynamicTupleStruct and of a derived tuple struct.
tuple_struct_apply(self_v, value) ==
    IF value.kind = "TupleStruct"
    THEN tuple_struct_apply_from(self_v, TupleStruct_iter_fields(value), 0)
    ELSE Left(self_v, NON_TUPLE_STRUCT_PANIC)

\* Result.
Ok(value) == [ok |-> TRUE, value |-> value]
Err(value) == [ok |-> FALSE, value |-> value]

\* PartialReflect::into_full: Ok(self) for a derived type, Err(self) for a
\* dynamic representation.
PartialReflect_into_full(self_v) ==
    IF self_v.full THEN Ok(self_v) ELSE Err(self_v)

\* <dyn PartialReflect>::take::<T>.
PartialReflect_take(T, self_v) ==
    IF self_v.type_id = T THEN Ok(self_v) ELSE Err(self_v)

\* FromReflect::take_from_reflect, provided method, for the derived type.
take_from_reflect_fallback(derived, value) ==
    IF derive_from_reflect(derived, value).value = None
    THEN Err(value)
    ELSE Ok(derive_from_reflect(derived, value).value[1])
take_from_reflect_taken(derived, taken) ==
    IF taken.ok THEN Ok(taken.value)
    ELSE take_from_reflect_fallback(derived, taken.value)
take_from_reflect(derived, reflect) ==
    IF ~PartialReflect_into_full(reflect).ok
    THEN Err(PartialReflect_into_full(reflect).value)
    ELSE take_from_reflect_taken(derived,
             PartialReflect_take(SelfTypeName,
                                 PartialReflect_into_full(reflect).value))

\* ------------------------------------------------ state: tuple structs
\* The field values a program holds, and the tuple structs made of them.
FieldValues ==
    {FieldValue("u32", Datum(1)), FieldValue("u32", Datum(2)),
     FieldValue("Opaque", Datum(1))}
FieldSeqs(values) ==
    UNION {[1..n -> {DynamicField("", v) : v \in values}] : n \in 0..MaxFields}
\* Dynamic tuple structs, and the tuple structs a program holds: dynamic
\* ones and values of a derived type Bar.
DynamicTupleStructs ==
    {DynamicTupleStruct(fields) : fields \in FieldSeqs(FieldValues)}
TupleStructs ==
    {Boxed("TupleStruct", "Bar", TRUE, fields) : fields \in FieldSeqs(FieldValues)}
        \cup DynamicTupleStructs
\* The derived type Self: a tuple struct of one u32 field.
SelfDerived ==
    Gen("TupleStruct", ContainerAttributes_default,
        <<[index |-> 0, ignore |-> FALSE,
           default |-> DefaultBehavior_Required, data |-> ""]>>,
        <<>>)
U32Values == {v \in FieldValues : v.type_id = "u32"}
\* The boxed values of type Self, and of the other derived type Bar(u32).
SelfBoxes ==
    {Boxed("TupleStruct", SelfTypeName, TRUE, <<DynamicField("", v)>>) :
        v \in U32Values}
BarBoxes ==
    {Boxed("TupleStruct", "Bar", TRUE, <<DynamicField("", v)>>) :
        v \in U32Values}
\* Values that are no tuple struct: a u32 and a dynamic struct.
NonTupleStructs ==
    {Boxed("Value", "u32", TRUE, <<>>),
     Boxed("Struct", "DynamicStruct", FALSE, <<>>)}
\* What the methods of a tuple struct are handed, and what take_from_reflect is.
Arguments == DynamicTupleStructs \cup NonTupleStructs
Boxes == DynamicTupleStructs \cup SelfBoxes \cup BarBoxes \cup NonTupleStructs

\* A program holds a tuple struct and no iterator over it yet; Self is a
\* derived tuple struct.
InitTupleStruct ==
    /\ this = ContainerAttributes_default
    /\ traits = ContainerAttributes_default
    /\ attrErr = NoErr
    /\ last = [op |-> "init", tok |-> NoTok, prov |-> NoProv]
    /\ ntok = 0
    /\ nlists = 0
    /\ pc = "attrs"
    /\ reflect_mode = None
    /\ type_path_alias = None
    /\ provenance = DeriveProvenance
    /\ result = NoResult
    /\ decl = NoData
    /\ seen = NoSeen
    /\ nattrs = 0
    /\ registration = None
    /\ gen = SelfDerived
    /\ call = NoCall
    /\ \E s \in TupleStructs :
           rt = [shape |-> "TupleStruct", self |-> s, iter |-> None, nexts |-> 0]
    /\ cells = NoCells
    /\ threads = NoThreads

libFrame == <<this, traits, attrErr, last, ntok, nlists, pc, reflect_mode,
              type_path_alias, provenance, result, decl, seen, nattrs,
              registration, gen, cells, threads>>

\* Self::take_from_reflect(reflect), reflect any boxed value.
CallTakeFromReflect(reflect) ==
    /\ rt.shape = "TupleStruct"
    /\ call' = Called("take_from_reflect", NoCall, reflect,
                      take_from_reflect(gen, reflect))
    /\ UNCHANGED rt
    /\ UNCHANGED libFrame

\* self.reflect_partial_eq(b), which is tuple_struct_partial_eq(self, b).
CallTupleStructPartialEq(b) ==
    /\ rt.shape = "TupleStruct"
    /\ call' = Called("tuple_struct_partial_eq", rt.self, b,
                      tuple_struct_partial_eq(rt.self, b))
    /\ UNCHANGED rt
    /\ UNCHANGED libFrame

\* self.apply(value): needs '&mut self', so no iterator borrows self any more.
CallApply(value) ==
    /\ rt.shape = "TupleStruct"
    /\ rt' = [rt EXCEPT !.self = tuple_struct_apply(rt.self, value).self,
                        !.iter = None, !.nexts = 0]
    /\ call' = Called("apply", rt.self, value,
                      tuple_struct_apply(rt.self, value).panic)
    /\ UNCHANGED libFrame

\* self.iter_fields()
CallIterFields ==
    /\ rt.shape = "TupleStruct"
    /\ rt' = [rt EXCEPT !.iter = Some(TupleStruct_iter_fields(rt.self)),
                        !.nexts = 0]
    /\ call' = Called("iter_fields", rt.self, None, None)
    /\ UNCHANGED libFrame

\* iter.next(), up to once past the end.
CallNext ==
    /\ rt.shape = "TupleStruct"
    /\ rt.iter # None
    /\ rt.nexts <= TupleStruct_field_len(rt.self)
    /\ rt' = [rt EXCEPT !.iter = Some(TupleStructFieldIter_next(rt.iter[1]).self),
                        !.nexts = rt.nexts + 1]
    /\ call' = Called("next", rt.iter[1], None,
                      TupleStructFieldIter_next(rt.iter[1]).out)
    /\ UNCHANGED libFrame

\* iter.size_hint()
CallSizeHint ==
    /\ rt.shape = "TupleStruct"
    /\ rt.iter # None
    /\ call' = Called("size_hint", rt.iter[1], None,
                      TupleStructFieldIter_size_hint(rt.iter[1]))
    /\ UNCHANGED rt
    /\ UNCHANGED libFrame

NextTupleStruct ==
    \/ \E reflect \in Boxes : CallTakeFromReflect(reflect)
    \/ \E b \in Arguments : CallTupleStructPartialEq(b)
    \/ \E value \in Arguments : CallApply(value)
    \/ CallIterFields
    \/ CallNext
    \/ CallSizeHint

SpecTupleStruct == InitTupleStruct /\ [][NextTupleStruct]_vars

\* ------------------------------------------- properties: take_from_reflect
\* C21: take_from_reflect(v) returns Ok with v's own value when v is a Self;
\* otherwise it returns Ok(x) when Self::from_reflect(v) is Some(x), and Err
\* with the original value only when from_reflect gives None as well; this
\* for every boxed value, dynamic representations included.
C21_TakeFallsBack ==
    (call.op = "take_from_reflect") =>
        IF call.arg.type_id = SelfTypeName
        THEN call.out = Ok(call.arg)
        ELSE IF derive_from_reflect(gen, call.arg).value # None
        THEN call.out = Ok(derive_from_reflect(gen, call.arg).value[1])
        ELSE call.out = Err(call.arg)

\* ------------------------------------------ properties: tuple struct methods
\* The results of reflect_partial_eq on the pairs of fields at equal index.
PairResults(a, b) ==
    [i \in 1..Len(a.fields) |->
        field_reflect_partial_eq(a.fields[i].value, b.fields[i].value)]
\* The first of them in index order that is not Some(true).
FirstFailed(results) ==
    results[CHOOSE i \in DOMAIN results :
                /\ results[i] # Some(TRUE)
                /\ \A j \in 1..(i - 1) : results[j] = Some(TRUE)]
Comparable(a, b) ==
    b.kind = "TupleStruct" /\ Len(b.fields) = Len(a.fields)

\* C22: tuple_struct_partial_eq(a, b) is Some(true) iff b is a tuple struct
\* with as many fields as a and every pair of fields at equal index compares
\* Some(true); it is Some(false) when b is no tuple struct or the counts
\* differ; otherwise it is the first pairwise result in index order that is
\* Some(false) or None.
C22_PartialEq ==
    (call.op = "tuple_struct_partial_eq") =>
        /\ (call.out = Some(TRUE)) <=>
               (/\ Comparable(call.self, call.arg)
                /\ \A i \in DOMAIN call.self.fields :
                       PairResults(call.self, call.arg)[i] = Some(TRUE))
        /\ (~Comparable(call.self, call.arg)) => (call.out = Some(FALSE))
        /\ (Comparable(call.self, call.arg) /\ call.out # Some(TRUE)) =>
               (call.out = FirstFailed(PairResults(call.self, call.arg)))

\* Two tuple structs whose first fields are equal and whose second fields
\* cannot be compared: the result is None.
C22_Witness ==
    /\ call.op = "tuple_struct_partial_eq"
    /\ Comparable(call.self, call.arg)
    /\ Len(call.self.fields) = 2
    /\ PairResults(call.self, call.arg) = <<Some(TRUE), None>>
    /\ call.out = None

Min(m, n) == IF m <= n THEN m ELSE n
\* The fields of self once the fields of value at the indexes 1..upto that
\* self has too were applied.
AppliedUpTo(before, value, upto) ==
    [i \in DOMAIN before.fields |->
        IF i <= upto /\ i <= Len(value.fields)
        THEN DynamicField("", value.fields[i].value)
        ELSE before.fields[i]]
\* The first index at which the field of value is not of the type of self's.
Mismatches(before, value) ==
    {i \in 1..Min(Len(before.fields), Len(value.fields)) :
        value.fields[i].value.type_id # before.fields[i].value.type_id}
FirstMismatch(before, value) ==
    CHOOSE i \in Mismatches(before, value) :
        \A j \in Mismatches(before, value) : i <= j

C29_ExactSize ==
    /\ (call.op = "next") =>
           (call.out = IF rt.nexts <= Len(rt.self.fields)
                       THEN Some(rt.self.fields[rt.nexts].value)
                       ELSE None)
    /\ (call.op = "size_hint" /\ rt.nexts <= Len(rt.self.fields)) =>
           (call.out = <<Len(rt.self.fields) - rt.nexts,
                         Some(Len(rt.self.fields) - rt.nexts)>>)

\* ---------------------------------------------------- type-info cells
TypedProperty_TypeInfo == "TypeInfo"
TypedProperty_TypePath == "TypePath"

\* ReflectMeta::impl_is_generic: some parameter is not a lifetime.
ReflectMeta_impl_is_generic(meta) ==
    ~(\A i \in DOMAIN meta.generics : meta.generics[i].kind = "lifetime")

\* static_typed_cell: the cell type of the 'static CELL' it declares in the
\* generated function and the method the function calls on it.
static_typed_cell_always_non_generic(meta, property) ==
    [cell_type |-> "NonGenericTypeInfoCell", method |-> "get_or_set"]
static_typed_cell(meta, property) ==
    IF ReflectMeta_impl_is_generic(meta)
    THEN [cell_type |-> IF property = TypedProperty_TypePath
                        THEN "GenericTypePathCell"
                        ELSE "GenericTypeInfoCell",
          method |-> "get_or_insert"]
    ELSE [cell_type |-> IF property = TypedProperty_TypePath
                        THEN "unreachable!"
                        ELSE "NonGenericTypeInfoCell",
          method |-> "get_or_set"]

\* The slot a call on the cell uses: get_or_insert::<Self, _> the one keyed
\* by the TypeId of Self, get_or_set the cell's only one.
THE_SLOT == "static"
cell_slot(code, Self) ==
    IF code.method = "get_or_insert" THEN Self ELSE THE_SLOT

\* The types a declaration stands for: the instantiations of a generic one.
Instantiations(meta) ==
    IF ReflectMeta_impl_is_generic(meta)
    THEN {"Foo<A>", "Foo<B>"}
    ELSE {"Foo"}
AllInstantiations == {"Foo", "Foo<A>", "Foo<B>"}

\* A cell: its slots, none populated, and how often the closure ran for each.
TypeCell_new(cell_type) ==
    [shape |-> cell_type,
     slots |-> [k \in AllInstantiations \cup {THE_SLOT} |-> None],
     runs |-> [k \in AllInstantiations |-> 0]]
\* What the generator closure computes for Self when a thread runs it: a
\* value of its own, told from the value another run leaks.
Computed(Self, thread) == [type_id |-> Self, by |-> thread]

\* ---------------------------------------------- state: type-info cells
MaxThreads == 2
MaxCalls == 2
Threads == 1..MaxThreads
TypedMetas ==
    {[traits |-> ContainerAttributes_default,
      path_to_type |-> PathToType_Internal("Foo"), generics |-> g] :
        g \in {<<>>, <<GenericParam_Lifetime("'a")>>, <<GenericParam_Type("T")>>,
               <<GenericParam_Lifetime("'a"), GenericParam_Const("N")>>}}
\* impl_typed and, for a generic type only, impl_type_path call
\* static_typed_cell.
TypedGens ==
    {[shape |-> "Typed", meta |-> m, property |-> p] :
        <<m, p>> \in {mp \in TypedMetas \X {TypedProperty_TypeInfo,
                                            TypedProperty_TypePath} :
                         mp[2] = TypedProperty_TypePath
                             => ReflectMeta_impl_is_generic(mp[1])}}
Idle == [pc |-> "idle", self |-> "", computed |-> None, returned |-> None,
         calls |-> 0]

\* The program has started: the static of a generated function is new and no
\* thread has called the function yet.
InitCells ==
    /\ this = ContainerAttributes_default
    /\ traits = ContainerAttributes_default
    /\ attrErr = NoErr
    /\ last = [op |-> "init", tok |-> NoTok, prov |-> NoProv]
    /\ ntok = 0
    /\ nlists = 0
    /\ pc = "attrs"
    /\ reflect_mode = None
    /\ type_path_alias = None
    /\ provenance = DeriveProvenance
    /\ result = NoResult
    /\ decl = NoData
    /\ seen = NoSeen
    /\ nattrs = 0
    /\ registration = None
    /\ gen \in TypedGens
    /\ call = NoCall
    /\ rt = NoRuntime
    /\ cells = TypeCell_new(static_typed_cell(gen.meta, gen.property).cell_type)
    /\ threads = [t \in Threads |-> Idle]

cellFrame == <<this, traits, attrErr, last, ntok, nlists, pc, reflect_mode,
               type_path_alias, provenance, result, decl, seen, nattrs,
               registration, gen, call, rt>>

\* The slot the call of thread t uses.
SlotOf(t) ==
    cell_slot(static_typed_cell(gen.meta, gen.property), threads[t].self)

\* Thread t calls the generated function of the instantiation Self.
Enter(t, Self) ==
    /\ gen.shape = "Typed"
    /\ threads[t].pc = "idle"
    /\ threads[t].calls < MaxCalls
    /\ Self \in Instantiations(gen.meta)
    /\ threads' = [threads EXCEPT ![t] =
           [pc |-> "get", self |-> Self, computed |-> None,
            returned |-> threads[t].returned, calls |-> threads[t].calls + 1]]
    /\ UNCHANGED cells
    /\ UNCHANGED cellFrame

\* The cell is read: a populated slot is returned, an empty one makes the
\* caller run the closure.
Get(t) ==
    /\ gen.shape = "Typed"
    /\ threads[t].pc = "get"
    /\ threads' = [threads EXCEPT ![t] =
           IF cells.slots[SlotOf(t)] # None
           THEN [@ EXCEPT !.pc = "idle",
                          !.returned = Some([self |-> threads[t].self,
                                             value |-> cells.slots[SlotOf(t)][1]])]
           ELSE [@ EXCEPT !.pc = "run"]]
    /\ UNCHANGED cells
    /\ UNCHANGED cellFrame

\* The closure runs.
Run(t) ==
    /\ gen.shape = "Typed"
    /\ threads[t].pc = "run"
    /\ threads' = [threads EXCEPT ![t] =
           [@ EXCEPT !.pc = "set",
                     !.computed = Some(Computed(threads[t].self, t))]]
    /\ cells' = [cells EXCEPT !.runs[threads[t].self] = @ + 1]
    /\ UNCHANGED cellFrame

\* The computed value is stored unless the slot was populated meanwhile;
\* what the slot holds is returned.
Set(t) ==
    /\ gen.shape = "Typed"
    /\ threads[t].pc = "set"
    /\ cells' = [cells EXCEPT !.slots[SlotOf(t)] =
           IF @ = None THEN threads[t].computed ELSE @]
    /\ threads' = [threads EXCEPT ![t] =
           [@ EXCEPT !.pc = "idle", !.computed = None,
                     !.returned = Some([self |-> threads[t].self,
                                        value |-> cells'.slots[SlotOf(t)][1]])]]
    /\ UNCHANGED cellFrame

NextCells ==
    \/ \E t \in Threads, Self \in AllInstantiations : Enter(t, Self)
    \/ \E t \in Threads : Get(t)
    \/ \E t \in Threads : Run(t)
    \/ \E t \in Threads : Set(t)

SpecCells == InitCells /\ [][NextCells]_vars

\* ------------------------------------------ properties: type-info cells
\* A thread's last call returned the value stored for the type it called the
\* function of, and that value was computed for that type.
ReturnedStored(t) ==
    (threads[t].returned # None) =>
        /\ threads[t].returned[1].value.type_id = threads[t].returned[1].self
        /\ cells.slots[cell_slot(static_typed_cell(gen.meta, gen.property),
                                 threads[t].returned[1].self)]
               = Some(threads[t].returned[1].value)

\* C23: whatever the interleaving of the callers racing on the first access
\* of a slot, a populated slot is never replaced, every caller, racing or
\* later, observes the one value stored for its own type (so two callers of
\* the same type observe the same value, whichever closure runs there were),
\* and an instantiation of a generic type never observes the value of
\* another one.
C23_PopulateOnce ==
    /\ [](gen.shape = "Typed" => \A t \in Threads : ReturnedStored(t))
    /\ [][gen.shape = "Typed" =>
             \A k \in DOMAIN cells.slots :
                 (cells.slots[k] # None) => (cells'.slots[k] = cells.slots[k])]_vars

\* Two threads raced on the first access of Foo<A>: the closure ran twice,
\* both returned the value of thread 1, and another caller got Foo<B>'s.
C23_Witness ==
    /\ gen.shape = "Typed"
    /\ cells.runs["Foo<A>"] = 2
    /\ cells.slots["Foo<A>"] = Some(Computed("Foo<A>", 1))
    /\ threads[1].returned = Some([self |-> "Foo<A>", value |-> Computed("Foo<A>", 1)])
    /\ threads[2].pc = "idle"
    /\ threads[2].calls = 2
    /\ threads[2].returned = Some([self |-> "Foo<B>", value |-> Computed("Foo<B>", 2)])

============================================================================
